---------------------------- MODULE Spec2Model ----------------------------
(***************************************************************************)
(* Conversational tour guide: the conversation endpoint (POST of           *)
(* app/api/conversation/route.ts), the session store (lib/conversation.ts),*)
(* the wake-phrase matcher (lib/wake-word.ts) and the dialogue             *)
(* orchestrator (TourGuideAgent of lib/tour-agent.ts).                     *)
(*                                                                         *)
(* Texts are sequences of one-character strings; a fixed message of the    *)
(* program is a one-element sequence holding the whole message, which no   *)
(* text operation of the model splits.  The agent run of the SDK           *)
(* (run(agent, input, options)) is outside the repository: a run is one    *)
(* step of the environment that either raises one of the SDK's errors or   *)
(* completes with a final output, a usage record, the knowledge lookups    *)
(* its tool calls appended to the run trace, and its hosted tool calls.    *)
(***************************************************************************)
EXTENDS Integers, Sequences, FiniteSets, TLC

VARIABLES
    SESSIONS,   \* the session map: session id -> session object
    detached,   \* session objects deleted from the map but still held by a request
    nextId,     \* number of session ids generated so far (crypto.randomUUID)
    sent,       \* number of requests sent to the endpoint so far
    clock,      \* Date.now()
    req,        \* per request slot: the POST handler's locals across its await
    agent,      \* per request slot: the respond() call's locals across its awaits
    resp,       \* per request slot: the response sent and not yet received
    probe       \* a function under test: its arguments and, once applied, its result

vars == <<SESSIONS, detached, nextId, sent, clock, req, agent, resp, probe>>

-----------------------------------------------------------------------------
(* Program constants *)

IDLE_MS == 30000
MAX_TURNS == 8
MAX_TOKEN_BUDGET == 4000
MAX_REQUEST_COUNT == 4
MIN_KNOWLEDGE_CONFIDENCE == 3

(* Bounds of the model *)

MaxRequests == 3     \* requests sent to the endpoint in one behaviour of Spec
LongRequests == 10   \* requests sent in one behaviour of SpecLong
MaxTicks == 1        \* the clock stops at MaxTicks * (IDLE_MS + 1)
MaxLookups == 2      \* knowledge lookups recorded in one run trace

-----------------------------------------------------------------------------
(* Text operations *)

WS == {" "}

RECURSIVE TrimStart(_)
TrimStart(s) ==
    IF s # <<>> /\ Head(s) \in WS THEN TrimStart(Tail(s)) ELSE s

RECURSIVE TrimEnd(_)
TrimEnd(s) ==
    IF s # <<>> /\ s[Len(s)] \in WS THEN TrimEnd(SubSeq(s, 1, Len(s) - 1)) ELSE s

\* String.prototype.trim
Trim(s) == TrimEnd(TrimStart(s))

\* String.prototype.toLowerCase on the letters the model's texts use
ToLower(c) ==
    CASE c = "H" -> "h"
      [] c = "E" -> "e"
      [] c = "Y" -> "y"
      [] c = "W" -> "w"
      [] c = "I" -> "i"
      [] c = "J" -> "j"
      [] c = "A" -> "a"
      [] OTHER -> c

\* s.slice(i - 1): the suffix of s that starts at position i (1-based)
Drop(s, i) == SubSeq(s, i, Len(s))

-----------------------------------------------------------------------------
(* lib/wake-word.ts *)

DEFAULT_WAKE_WORD == <<"h", "e", "y", " ", "w", "e", "i", " ", "j", "i", "e">>

\* wakeWord.trim().split(/\s+/): the maximal runs of non-whitespace; the
\* empty string splits into one empty word
RECURSIVE SplitWS(_, _, _)
SplitWS(s, cur, acc) ==
    IF s = <<>> THEN Append(acc, cur)
    ELSE IF Head(s) \in WS
         THEN SplitWS(TrimStart(s), <<>>, Append(acc, cur))
         ELSE SplitWS(Tail(s), Append(cur, Head(s)), acc)

WakeWords(wakeWord) == SplitWS(Trim(wakeWord), <<>>, <<>>)

\* the position after the longest run of characters of set that starts at i
RECURSIVE SkipWhile(_, _, _)
SkipWhile(s, i, set) ==
    IF i <= Len(s) /\ s[i] \in set THEN SkipWhile(s, i + 1, set) ELSE i

\* word w matched case-insensitively at position i of s: the position after
\* it, or 0 when it does not match
MatchWord(s, i, w) ==
    IF /\ i + Len(w) - 1 <= Len(s)
       /\ \A k \in 1..Len(w) : ToLower(s[i + k - 1]) = ToLower(w[k])
    THEN i + Len(w)
    ELSE 0

\* the words, separated by \s*, matched from position i of s
RECURSIVE MatchWords(_, _, _)
MatchWords(s, i, words) ==
    IF words = <<>> THEN i
    ELSE LET j == MatchWord(s, i, Head(words))
         IN  IF j = 0 THEN 0
             ELSE IF Tail(words) = <<>> THEN j
             ELSE MatchWords(s, SkipWhile(s, j, WS), Tail(words))

WakeSeparators == WS \cup {",", ".", ":", ";", "-"}

\* new RegExp("^\\s*" + words.join("\\s*") + "[\\s,.:;-]*", "i") applied to
\* s: the position after the match, or 0 when the pattern does not match
buildWakeWordPattern(wakeWord, s) ==
    LET j == MatchWords(s, SkipWhile(s, 1, WS), WakeWords(wakeWord))
    IN  IF j = 0 THEN 0 ELSE SkipWhile(s, j, WakeSeparators)

detectAndStripUntrimmed(text, wakeWord) ==
    LET norm == Trim(text)
        end == buildWakeWordPattern(wakeWord, norm)
        matched == end # 0
    IN  [matched |-> matched,
         stripped |-> IF matched THEN Trim(Drop(norm, end)) ELSE text,
         wakeWord |-> wakeWord]

detectAndStripWakeWord(text, wakeWord) ==
    LET norm == Trim(text)
        end == buildWakeWordPattern(wakeWord, norm)
        matched == end # 0
    IN  [matched |-> matched,
         stripped |-> IF matched THEN Trim(Drop(norm, end)) ELSE norm,
         wakeWord |-> wakeWord]

-----------------------------------------------------------------------------
(* The later version of lib/wake-word.ts, the one that exports getWakeWord *)

\* \w of the regular expression, on the characters the model's texts use
WordChars ==
    {"a", "b", "c", "d", "e", "f", "g", "h", "i", "j", "k", "l", "m", "n",
     "o", "p", "q", "r", "s", "t", "u", "v", "w", "x", "y", "z",
     "A", "E", "H", "I", "J", "W", "Y"}

IsWordAt(s, p) == p >= 1 /\ p <= Len(s) /\ s[p] \in WordChars

\* \b between positions p - 1 and p of s
WordBoundary(s, p) == IsWordAt(s, p - 1) # IsWordAt(s, p)

\* the class [\s,.:;!?-] that may follow the phrase
WakeTerminators == WS \cup {",", ".", ":", ";", "!", "?", "-"}

\* escaped.split(/\\s+/).join("\\s*"): the split pattern is a backslash
\* followed by letters s, which no phrase of letters and spaces contains, so
\* the phrase stays one literal segment and its spaces match one space each
SegmentPattern(trimmed) == trimmed

\* (^|\b)segment(?:\b|[\s,.:;!?-]) tried at position p of s: the position
\* after the match, or 0 when there is none at p
WakeMatchAt(s, p, segment) ==
    LET e == MatchWord(s, p, segment)
    IN  IF ~(p = 1 \/ WordBoundary(s, p)) \/ e = 0 THEN 0
        ELSE IF WordBoundary(s, e) THEN e
        ELSE IF e <= Len(s) /\ s[e] \in WakeTerminators THEN e + 1
        ELSE 0

\* the leftmost match of buildWakeWordPattern(wakeWord) in s, as
\* <<start, end>>, or <<0, 0>> when there is none; an empty phrase gives
\* /^$/i, which matches the empty text only
WakeSearch(wakeWord, s) ==
    LET trimmed == Trim(wakeWord)
        starts == {p \in 1..Len(s) + 1 :
                      WakeMatchAt(s, p, SegmentPattern(trimmed)) # 0}
    IN  IF trimmed = <<>>
        THEN IF s = <<>> THEN <<1, 1>> ELSE <<0, 0>>
        ELSE IF starts = {} THEN <<0, 0>>
        ELSE LET p == CHOOSE q \in starts : \A o \in starts : q <= o
             IN  <<p, WakeMatchAt(s, p, SegmentPattern(trimmed))>>

detectAndStripWakeWordLater(text, wakeWord) ==
    LET norm == Trim(text)
        found == WakeSearch(wakeWord, norm)
        matched == found[1] # 0
    IN  [matched |-> matched,
         stripped |-> IF matched
                      THEN Trim(SubSeq(norm, 1, found[1] - 1)
                                  \o Drop(norm, found[2]))
                      ELSE norm,
         wakeWord |-> wakeWord]

-----------------------------------------------------------------------------
(* lib/tour-agent.ts: the values of one agent run *)

EntryIds == {"changi-jewel-rain-vortex", "changi-jewel-main"}
Scores == {MIN_KNOWLEDGE_CONFIDENCE - 1, MIN_KNOWLEDGE_CONFIDENCE}

\* KnowledgeMatch, reduced to the fields the orchestrator reads
Matches == [id : EntryIds, score : Scores]

\* the matches of one lookup: searchKnowledgeIndex returns each entry at most
\* once, by descending score
MatchLists ==
    {<<>>} \cup {<<m>> : m \in Matches}
           \cup {p \in {<<m, n>> : m \in Matches, n \in Matches} :
                    p[1].id # p[2].id /\ p[2].score <= p[1].score}

\* KnowledgeLookupTrace, reduced to its matches
Lookups == [matches : MatchLists]

RECURSIVE SeqsUpTo(_, _)
SeqsUpTo(S, n) ==
    IF n = 0 THEN {<<>>}
    ELSE LET shorter == SeqsUpTo(S, n - 1)
         IN  shorter \cup {Append(q, x) : q \in {t \in shorter : Len(t) = n - 1}, x \in S}

\* AgentRunTrace.knowledgeLookups
Traces == SeqsUpTo(Lookups, MaxLookups)

Undefined == <<"undefined">>

RawAnswer == <<" ", "a", " ">>
FinalOutputs == {Undefined, <<" ">>, RawAnswer}

\* agentRun.state.context.usage: absent, or the token and request counts
NoUsage == [present |-> FALSE, totalTokens |-> 0, requests |-> 0]
AtLimit ==
    [present |-> TRUE, totalTokens |-> MAX_TOKEN_BUDGET,
     requests |-> MAX_REQUEST_COUNT]
Usages ==
    {NoUsage, AtLimit,
     [AtLimit EXCEPT !.totalTokens = MAX_TOKEN_BUDGET + 1],
     [AtLimit EXCEPT !.requests = MAX_REQUEST_COUNT + 1]}

\* the hosted web_search calls among agentRun.newItems, by their arguments:
\* none, one without arguments, one with a JSON query
WebQuery == <<"q">>
WebSearchCalls ==
    {<<>>, <<[arguments |-> Undefined]>>, <<[arguments |-> WebQuery]>>}

ErrorKinds ==
    {"InputGuardrailTripwireTriggered", "OutputGuardrailTripwireTriggered",
     "MaxTurnsExceededError", "Error"}

\* what executeAgentRun can end with: an error raised by run(), or the run
\* object and the trace its tool calls filled
CompletedRuns ==
    [kind : {"completed"}, finalOutput : FinalOutputs, usage : Usages,
     knowledgeLookups : Traces, webSearchCalls : WebSearchCalls]
FailedRuns == [kind : {"failed"}, error : ErrorKinds]
AllRuns == CompletedRuns \cup FailedRuns

-----------------------------------------------------------------------------
(* lib/tour-agent.ts: fixed messages *)

MsgNoAnswer == <<"Sorry, I couldn't craft a response just now.">>
MsgBudget ==
    <<"Sorry, I hit my processing budget for that request. Could you rephrase it more concisely?">>
MsgInputGuardrail ==
    <<"Your request is a little too long for me to safely handle. Could you shorten it and try again?">>
MsgOutputGuardrail ==
    <<"I had trouble formulating a safe answer just now. Let's try a simpler version of that question.">>
MsgTurnLimit ==
    <<"I couldn't finish gathering information within my turn limit. Please narrow the question and I'll give it another shot.">>
MsgUnexpected ==
    <<"Something went wrong while I was looking that up. Could you please try again in a moment?">>
NoteOutputGuardrail == <<"Output guardrail triggered">>
NoteTurnLimit == <<"Turn limit reached before completion">>
NoteFallbackIncomplete ==
    <<"Web search fallback attempted but no search call was completed.">>
NoteWebSearchUsed == <<"OpenAI web search tool used.">>
NoteWebSearchQuery == <<"OpenAI web search query: ">>
ErrQueryRequired == <<"Query text must be provided.">>

-----------------------------------------------------------------------------
(* lib/tour-agent.ts: the orchestrator's functions *)

\* Array.from(new Set(ids)): the first occurrence of each id, in order
RECURSIVE Dedup(_, _)
Dedup(ids, acc) ==
    IF ids = <<>> THEN acc
    ELSE Dedup(Tail(ids),
               IF \E k \in 1..Len(acc) : acc[k] = Head(ids)
               THEN acc ELSE Append(acc, Head(ids)))

\* knowledgeLookups.flatMap((lookup) => lookup.matches)
RECURSIVE FlatMatches(_)
FlatMatches(lookups) ==
    IF lookups = <<>> THEN <<>>
    ELSE Head(lookups).matches \o FlatMatches(Tail(lookups))

MatchIds(ms) == [k \in 1..Len(ms) |-> ms[k].id]

\* allMatches.reduce((best, m) => (m.score > best ? m.score : best), 0)
RECURSIVE TopScore(_, _)
TopScore(ms, best) ==
    IF ms = <<>> THEN best
    ELSE TopScore(Tail(ms), IF Head(ms).score > best THEN Head(ms).score ELSE best)

\* the note buildAgentResponse derives from the last web search call
WebSearchNoteOf(calls) ==
    LET lastCall == calls[Len(calls)]
        queryText == IF lastCall.arguments = Undefined
                     THEN <<>> ELSE Trim(lastCall.arguments)
    IN  IF queryText # <<>> THEN NoteWebSearchQuery \o queryText
        ELSE NoteWebSearchUsed

\* a summary that keeps an empty answer empty
buildAgentResponseRaw(agentRun, runTrace) ==
    LET rawAnswer == agentRun.finalOutput
        answer == IF rawAnswer # Undefined THEN Trim(rawAnswer) ELSE <<>>
        totalTokens == IF agentRun.usage.present
                       THEN agentRun.usage.totalTokens ELSE 0
        requests == IF agentRun.usage.present
                    THEN agentRun.usage.requests ELSE 0
        usedWebSearch == Len(agentRun.webSearchCalls) > 0
    IN  [response |->
            [answer |-> answer,
             knowledgeReferences |->
                Dedup(MatchIds(FlatMatches(runTrace.knowledgeLookups)), <<>>),
             usedWebSearch |-> usedWebSearch,
             webSearchNote |-> IF usedWebSearch
                               THEN WebSearchNoteOf(agentRun.webSearchCalls)
                               ELSE Undefined],
         usage |-> [totalTokens |-> totalTokens, requests |-> requests]]

buildAgentResponse(agentRun, runTrace) ==
    LET rawAnswer == agentRun.finalOutput
        answer == IF rawAnswer # Undefined /\ Trim(rawAnswer) # <<>>
                  THEN Trim(rawAnswer) ELSE MsgNoAnswer
        totalTokens == IF agentRun.usage.present
                       THEN agentRun.usage.totalTokens ELSE 0
        requests == IF agentRun.usage.present
                    THEN agentRun.usage.requests ELSE 0
        usedWebSearch == Len(agentRun.webSearchCalls) > 0
    IN  [response |->
            [answer |-> answer,
             knowledgeReferences |->
                Dedup(MatchIds(FlatMatches(runTrace.knowledgeLookups)), <<>>),
             usedWebSearch |-> usedWebSearch,
             webSearchNote |-> IF usedWebSearch
                               THEN WebSearchNoteOf(agentRun.webSearchCalls)
                               ELSE Undefined],
         usage |-> [totalTokens |-> totalTokens, requests |-> requests]]

shouldFallbackUnlessNoMatch(response, runTrace) ==
    IF Trim(response.answer) = <<>> THEN TRUE
    ELSE IF response.usedWebSearch THEN FALSE
    ELSE IF Len(runTrace.knowledgeLookups) = 0 THEN TRUE
    ELSE LET allMatches == FlatMatches(runTrace.knowledgeLookups)
         IN  IF Len(allMatches) = 0 THEN FALSE
             ELSE TopScore(allMatches, 0) < MIN_KNOWLEDGE_CONFIDENCE

shouldFallbackAtThreshold(response, runTrace) ==
    IF Trim(response.answer) = <<>> THEN TRUE
    ELSE IF response.usedWebSearch THEN FALSE
    ELSE IF Len(runTrace.knowledgeLookups) = 0 THEN TRUE
    ELSE LET allMatches == FlatMatches(runTrace.knowledgeLookups)
         IN  IF Len(allMatches) = 0 THEN TRUE
             ELSE TopScore(allMatches, 0) <= MIN_KNOWLEDGE_CONFIDENCE

shouldFallbackDespiteWebSearch(response, runTrace) ==
    IF Trim(response.answer) = <<>> THEN TRUE
    ELSE IF Len(runTrace.knowledgeLookups) = 0 THEN TRUE
    ELSE LET allMatches == FlatMatches(runTrace.knowledgeLookups)
         IN  IF Len(allMatches) = 0 THEN TRUE
             ELSE TopScore(allMatches, 0) < MIN_KNOWLEDGE_CONFIDENCE

shouldFallbackToWebSearch(response, runTrace) ==
    IF Trim(response.answer) = <<>> THEN TRUE
    ELSE IF response.usedWebSearch THEN FALSE
    ELSE IF Len(runTrace.knowledgeLookups) = 0 THEN TRUE
    ELSE LET allMatches == FlatMatches(runTrace.knowledgeLookups)
         IN  IF Len(allMatches) = 0 THEN TRUE
             ELSE TopScore(allMatches, 0) < MIN_KNOWLEDGE_CONFIDENCE

\* a handler that answers every error as an unexpected one
handleAgentErrorUnclassified(error) ==
    [answer |-> MsgUnexpected, knowledgeReferences |-> <<>>,
     usedWebSearch |-> FALSE, webSearchNote |-> Undefined]

handleAgentError(error) ==
    CASE error = "InputGuardrailTripwireTriggered" ->
            [answer |-> MsgInputGuardrail, knowledgeReferences |-> <<>>,
             usedWebSearch |-> FALSE, webSearchNote |-> Undefined]
      [] error = "OutputGuardrailTripwireTriggered" ->
            [answer |-> MsgOutputGuardrail, knowledgeReferences |-> <<>>,
             usedWebSearch |-> FALSE, webSearchNote |-> NoteOutputGuardrail]
      [] error = "MaxTurnsExceededError" ->
            [answer |-> MsgTurnLimit, knowledgeReferences |-> <<>>,
             usedWebSearch |-> FALSE, webSearchNote |-> NoteTurnLimit]
      [] OTHER ->
            [answer |-> MsgUnexpected, knowledgeReferences |-> <<>>,
             usedWebSearch |-> FALSE, webSearchNote |-> Undefined]

-----------------------------------------------------------------------------
(* State *)

Slots == {1, 2}

NoSessionId == 0

LangDefault == <<"en-SG">>

\* newSession(): the id is drawn fresh, so the model numbers the ids
newSession(id, t) ==
    [id |-> id, messages |-> <<>>, lastSeenAt |-> t, turns |-> 0,
     lang |-> Undefined]

\* a message of session.messages; its text is abstracted to the ordinal of
\* the turn that wrote it, since no operation reads the text of a message
Msg(role, n) == [role |-> role, content |-> n]

\* what the caller keeps of the response to its previous request
NoPrevious == [sessionId |-> NoSessionId, reply |-> Undefined]

IdleReq ==
    [pc |-> "idle", providedSessionId |-> NoSessionId,
     trimmedText |-> <<>>, strippedFromClient |-> <<>>,
     session |-> NoSessionId, userText |-> <<>>,
     detectedWakeWord |-> FALSE, lang |-> Undefined,
     previous |-> NoPrevious]

\* Response.json(payload, {status}); status 0 stands for "no response yet"
NoResponse ==
    [status |-> 0, error |-> Undefined, sessionId |-> NoSessionId,
     reply |-> Undefined, ended |-> FALSE, endReason |-> Undefined,
     turn |-> 0, detectedWakeWord |-> FALSE, knowledgeReferences |-> <<>>,
     usedWebSearch |-> FALSE, webSearchNote |-> Undefined]

NoProbe == [fn |-> "none"]

NoResult ==
    [answer |-> <<>>, knowledgeReferences |-> <<>>, usedWebSearch |-> FALSE,
     webSearchNote |-> Undefined]

\* the locals of respond(): pc is the await the call is suspended at, or
\* "returned" / "raised" once it has settled; runLog keeps, for each run
\* executed in this call, what LogEntry says of it; result is the
\* AgentResponse the call returned.  The execution and summary locals are
\* read only in the step that assigns them, so they are not kept
IdleAgent ==
    [pc |-> "idle", query |-> <<>>, fallbackAttempted |-> FALSE,
     runLog |-> <<>>, result |-> NoResult,
     error |-> Undefined]

Init ==
    /\ SESSIONS = <<>>
    /\ detached = <<>>
    /\ nextId = 0
    /\ sent = 0
    /\ clock = 0
    /\ req = [r \in Slots |-> IdleReq]
    /\ agent = [r \in Slots |-> IdleAgent]
    /\ resp = [r \in Slots |-> NoResponse]
    /\ probe = NoProbe

-----------------------------------------------------------------------------
(* lib/conversation.ts *)

now == clock

isExpiredLate(session) == now - session.lastSeenAt > IDLE_MS + 1

isExpiredAtWindow(session) == now - session.lastSeenAt >= IDLE_MS

isExpired(session) == now - session.lastSeenAt > IDLE_MS

expiresAt(session) == session.lastSeenAt + IDLE_MS

\* getSession with a store that forgets the other sessions when it adds one
getSessionReplacing(sessionId) ==
    IF sessionId # NoSessionId /\ sessionId \in DOMAIN SESSIONS
    THEN [session |-> SESSIONS[sessionId], store |-> SESSIONS, issued |-> nextId]
    ELSE LET s == newSession(nextId + 1, now)
         IN  [session |-> s, store |-> (s.id :> s), issued |-> nextId + 1]

\* getSession with a store that opens a session under the id it was given
getSessionAdopting(sessionId) ==
    IF sessionId # NoSessionId /\ sessionId \in DOMAIN SESSIONS
    THEN [session |-> SESSIONS[sessionId], store |-> SESSIONS, issued |-> nextId]
    ELSE LET s == newSession(IF sessionId # NoSessionId THEN sessionId
                             ELSE nextId + 1, now)
         IN  [session |-> s, store |-> (s.id :> s) @@ SESSIONS,
              issued |-> IF sessionId # NoSessionId THEN nextId
                         ELSE nextId + 1]

\* getSession(sessionId): the session returned, the map after the call and
\* the number of ids drawn so far
getSession(sessionId) ==
    IF sessionId # NoSessionId /\ sessionId \in DOMAIN SESSIONS
    THEN [session |-> SESSIONS[sessionId], store |-> SESSIONS, issued |-> nextId]
    ELSE LET s == newSession(nextId + 1, now)
         IN  [session |-> s, store |-> (s.id :> s) @@ SESSIONS,
              issued |-> nextId + 1]

\* the session object a request holds: in the map, or deleted from it
Deref(id) == IF id \in DOMAIN SESSIONS THEN SESSIONS[id] ELSE detached[id]

Without(f, id) == [k \in DOMAIN f \ {id} |-> f[k]]

\* another request than r is suspended holding session id
HeldElsewhere(id, r) ==
    \E q \in Slots \ {r} : req[q].pc = "awaiting" /\ req[q].session = id

-----------------------------------------------------------------------------
(* lib/tour-agent.ts: respond() *)

\* respond() up to its first await: an empty query is refused by a throw
RespondStart(query) ==
    IF Trim(query) = <<>>
    THEN [IdleAgent EXCEPT !.pc = "raised", !.query = query,
                           !.error = ErrQueryRequired]
    ELSE [IdleAgent EXCEPT !.pc = "history", !.query = query]

\* what a run of the call did: how it ended, the usage it reported, the
\* lookups its trace recorded, the ids they matched, the best score among
\* them (0 without a match), and whether it called the web search tool
LogEntry(run) ==
    IF run.kind = "failed"
    THEN [outcome |-> run.error, usage |-> NoUsage, lookups |-> 0,
          matchIds |-> {}, topScore |-> 0, usedWebSearch |-> FALSE]
    ELSE LET allMatches == FlatMatches(run.knowledgeLookups)
         IN  [outcome |-> "completed", usage |-> run.usage,
              lookups |-> Len(run.knowledgeLookups),
              matchIds |-> {allMatches[i].id : i \in 1..Len(allMatches)},
              topScore |-> TopScore(allMatches, 0),
              usedWebSearch |-> Len(run.webSearchCalls) > 0]

FinalizeWithoutNote(summary, fallbackAttempted) ==
    IF \/ summary.usage.totalTokens > MAX_TOKEN_BUDGET
       \/ summary.usage.requests > MAX_REQUEST_COUNT
    THEN [answer |-> MsgBudget, knowledgeReferences |-> <<>>,
          usedWebSearch |-> summary.response.usedWebSearch,
          webSearchNote |-> summary.response.webSearchNote]
    ELSE summary.response

\* lines 463-495: the budget check and the note of an incomplete fallback
Finalize(summary, fallbackAttempted) ==
    IF \/ summary.usage.totalTokens > MAX_TOKEN_BUDGET
       \/ summary.usage.requests > MAX_REQUEST_COUNT
    THEN [answer |-> MsgBudget, knowledgeReferences |-> <<>>,
          usedWebSearch |-> summary.response.usedWebSearch,
          webSearchNote |-> summary.response.webSearchNote]
    ELSE IF /\ fallbackAttempted
            /\ ~summary.response.usedWebSearch
            /\ summary.response.webSearchNote = Undefined
         THEN [summary.response EXCEPT !.webSearchNote = NoteFallbackIncomplete]
         ELSE summary.response

\* await this.historyStore.loadHistory(10, sessionId).catch(() => [])
HistoryOutcomes == {"records", "empty", "rejected"}

LoadHistory(r) ==
    /\ agent[r].pc = "history"
    /\ \E outcome \in HistoryOutcomes :
          agent' = [agent EXCEPT ![r].pc = "notes"]
    /\ UNCHANGED <<SESSIONS, detached, nextId, sent, clock, req, resp, probe>>

\* the try/catch around fs.readFile of the image-analysis notes
NotesOutcomes == {"notes", "ENOENT", "error"}

LoadNotes(r) ==
    /\ agent[r].pc = "notes"
    /\ \E outcome \in NotesOutcomes :
          agent' = [agent EXCEPT ![r].pc = "primary"]
    /\ UNCHANGED <<SESSIONS, detached, nextId, sent, clock, req, resp, probe>>

AfterRunRepeating(a, run) ==
    LET logged == [a EXCEPT !.runLog = Append(@, LogEntry(run))]
    IN  IF run.kind = "failed"
        THEN [logged EXCEPT !.pc = "returned",
                            !.result = handleAgentError(run.error)]
        ELSE LET runTrace == [knowledgeLookups |-> run.knowledgeLookups]
                 summary == buildAgentResponse(run, runTrace)
             IN  IF shouldFallbackToWebSearch(summary.response, runTrace)
                 THEN [logged EXCEPT !.pc = "fallback",
                                     !.fallbackAttempted = TRUE]
                 ELSE [logged EXCEPT
                          !.pc = "returned",
                          !.result = Finalize(summary, a.fallbackAttempted)]

AfterRunRetrying(a, run) ==
    LET logged == [a EXCEPT !.runLog = Append(@, LogEntry(run))]
    IN  IF a.pc = "primary"
        THEN [logged EXCEPT !.pc = "fallback", !.fallbackAttempted = TRUE]
        ELSE IF run.kind = "failed"
        THEN [logged EXCEPT !.pc = "returned",
                            !.result = handleAgentError(run.error)]
        ELSE LET runTrace == [knowledgeLookups |-> run.knowledgeLookups]
                 summary == buildAgentResponse(run, runTrace)
             IN  [logged EXCEPT
                     !.pc = "returned",
                     !.result = Finalize(summary, a.fallbackAttempted)]

\* the state of the call after the run `run` of its current await ended.
\* Once the fallback run is awaited, the primary run's execution and summary
\* are dead (every path overwrites them or returns without reading them), so
\* the call keeps of the primary run only its runLog entry
AfterRun(a, run) ==
    LET logged == [a EXCEPT !.runLog = Append(@, LogEntry(run))]
    IN  IF run.kind = "failed"
        THEN [logged EXCEPT !.pc = "returned",
                            !.result = handleAgentError(run.error)]
        ELSE LET runTrace == [knowledgeLookups |-> run.knowledgeLookups]
                 summary == buildAgentResponse(run, runTrace)
                 escalate == shouldFallbackToWebSearch(summary.response, runTrace)
             IN  IF a.pc = "primary" /\ escalate
                 THEN [logged EXCEPT !.pc = "fallback",
                                     !.fallbackAttempted = TRUE]
                 ELSE [logged EXCEPT
                          !.pc = "returned",
                          !.result = Finalize(summary, a.fallbackAttempted)]

PrimaryRun(r, Runs) ==
    /\ agent[r].pc = "primary"
    /\ \E run \in Runs : agent' = [agent EXCEPT ![r] = AfterRun(@, run)]
    /\ UNCHANGED <<SESSIONS, detached, nextId, sent, clock, req, resp, probe>>

FallbackRun(r, Runs) ==
    /\ agent[r].pc = "fallback"
    /\ \E run \in Runs : agent' = [agent EXCEPT ![r] = AfterRun(@, run)]
    /\ UNCHANGED <<SESSIONS, detached, nextId, sent, clock, req, resp, probe>>

-----------------------------------------------------------------------------
(* app/api/conversation/route.ts: POST *)

MsgMissingText == <<"Missing 'text'.">>
MsgPause == <<"I'll pause here. Use the wake word to pick up again.">>
EndIdleTimeout == <<"idle_timeout">>

WakeText ==
    <<"H", "e", "y", " ", "w", "e", "i", " ", "j", "i", "e", ",", " ", "q">>

\* body.text, body.strippedText and body.wakeWordDetected of the requests
Texts == {<<>>, <<"q">>, WakeText}
StrippedTexts == {Undefined, <<"q">>}
WakeFlags == {"absent", "true", "false"}

\* the request bodies a client may send: any text, with any session id the
\* endpoint has handed out so far or none
AnyBody ==
    [text |-> Texts, strippedText |-> StrippedTexts,
     wakeWordDetected |-> WakeFlags,
     sessionId |-> {NoSessionId} \cup 1..nextId]

\* a visitor who asks plain questions and stays in the session they were given
PlainBody ==
    [text |-> {<<"q">>}, strippedText |-> {Undefined},
     wakeWordDetected |-> {"absent"},
     sessionId |-> IF nextId = 0 THEN {NoSessionId} ELSE {nextId}]

\* lines 58-79: detectedWakeWord and userText of a request
WakeGate(turns, trimmedText, strippedFromClient, flag) ==
    LET res == detectAndStripWakeWord(trimmedText, DEFAULT_WAKE_WORD)
        fromText ==
            [detectedWakeWord |-> res.matched,
             userText |-> IF res.stripped # <<>> THEN res.stripped
                          ELSE trimmedText]
        asSent ==
            [detectedWakeWord |-> FALSE,
             userText |-> IF strippedFromClient # <<>> THEN strippedFromClient
                          ELSE trimmedText]
    IN  IF turns # 0 THEN asSent
        ELSE IF flag = "absent" THEN fromText
        ELSE IF flag = "true"
             THEN IF strippedFromClient = <<>> THEN fromText
                  ELSE [asSent EXCEPT !.detectedWakeWord = TRUE]
             ELSE asSent

MissingTextNever(trimmedText, strippedFromClient) == FALSE

\* line 33: !trimmedText && !strippedFromClient
MissingText(trimmedText, strippedFromClient) ==
    trimmedText = <<>> /\ strippedFromClient = <<>>

\* lines 17-94: the handler up to the await of agent.respond()
PostBegin(r, maxRequests, bodies) ==
    /\ req[r].pc = "idle"
    /\ resp[r] = NoResponse
    /\ sent < maxRequests
    /\ sent' = sent + 1
    /\ \E text \in bodies.text, strippedText \in bodies.strippedText,
          flag \in bodies.wakeWordDetected,
          providedSessionId \in bodies.sessionId :
        LET trimmedText == Trim(text)
            strippedFromClient ==
                IF strippedText = Undefined THEN <<>> ELSE Trim(strippedText)
            got == getSession(providedSessionId)
            session == got.session
            id == session.id
            gate == WakeGate(session.turns, trimmedText, strippedFromClient, flag)
            received == [req[r] EXCEPT
                            !.providedSessionId = providedSessionId,
                            !.trimmedText = trimmedText,
                            !.strippedFromClient = strippedFromClient]
        IN  IF MissingText(trimmedText, strippedFromClient)
            THEN /\ resp' = [resp EXCEPT ![r] =
                        [NoResponse EXCEPT !.status = 400,
                                           !.error = MsgMissingText]]
                 /\ req' = [req EXCEPT ![r] = received]
                 /\ UNCHANGED <<SESSIONS, detached, nextId, agent>>
            ELSE /\ nextId' = got.issued
                 /\ IF isExpired(session)
                    THEN /\ resp' = [resp EXCEPT ![r] =
                                [NoResponse EXCEPT
                                    !.status = 200,
                                    !.sessionId = session.id,
                                    !.reply = MsgPause,
                                    !.ended = TRUE,
                                    !.endReason = EndIdleTimeout,
                                    !.turn = session.turns]]
                         /\ SESSIONS' = Without(got.store, id)
                         /\ detached' = IF HeldElsewhere(id, r)
                                        THEN detached @@ (id :> session)
                                        ELSE detached
                         /\ req' = [req EXCEPT ![r] = received]
                         /\ UNCHANGED agent
                    ELSE /\ SESSIONS' =
                                [got.store EXCEPT ![id].lastSeenAt = now]
                         /\ req' = [req EXCEPT ![r] =
                                [received EXCEPT
                                    !.pc = "awaiting",
                                    !.session = id,
                                    !.userText = gate.userText,
                                    !.detectedWakeWord = gate.detectedWakeWord,
                                    !.lang = IF session.lang # Undefined
                                             THEN session.lang ELSE LangDefault]]
                         /\ agent' = [agent EXCEPT ![r] =
                                RespondStart(gate.userText)]
                         /\ UNCHANGED <<detached, resp>>
    /\ UNCHANGED <<clock, probe>>

\* session.messages.slice(-MAX_TURNS * 2)
SliceLast(messages, n) ==
    IF Len(messages) <= n THEN messages
    ELSE SubSeq(messages, Len(messages) - n + 1, Len(messages))

\* a write that puts the new pair on an empty history, as a handler would
\* that had copied session.messages before it was suspended
RecordTurnOverwriting(session, lang) ==
    [session EXCEPT
        !.messages = <<Msg("user", session.turns + 1),
                       Msg("assistant", session.turns + 1)>>,
        !.turns = @ + 1,
        !.lang = lang,
        !.lastSeenAt = now]

RecordTurnUncapped(session, lang) ==
    [session EXCEPT
        !.messages = @ \o <<Msg("user", session.turns + 1),
                            Msg("assistant", session.turns + 1)>>,
        !.turns = @ + 1,
        !.lang = lang,
        !.lastSeenAt = now]

\* lines 97-105: the session after a turn
RecordTurn(session, lang) ==
    LET history == SliceLast(session.messages, MAX_TURNS * 2)
    IN  [session EXCEPT
            !.messages = history \o <<Msg("user", session.turns + 1),
                                      Msg("assistant", session.turns + 1)>>,
            !.turns = @ + 1,
            !.lang = lang,
            !.lastSeenAt = now]

\* lines 95-135: the handler after agent.respond() settled
PostFinish(r) ==
    /\ req[r].pc = "awaiting"
    /\ agent[r].pc \in {"returned", "raised"}
    /\ LET id == req[r].session
           inMap == id \in DOMAIN SESSIONS
           session == RecordTurn(Deref(id), req[r].lang)
       IN  IF agent[r].pc = "raised"
           THEN /\ resp' = [resp EXCEPT ![r] =
                       [NoResponse EXCEPT !.status = 500,
                                          !.error = agent[r].error]]
                /\ SESSIONS' = SESSIONS
                /\ detached' = IF inMap \/ HeldElsewhere(id, r)
                               THEN detached ELSE Without(detached, id)
           ELSE /\ resp' = [resp EXCEPT ![r] =
                       [NoResponse EXCEPT
                           !.status = 200,
                           !.sessionId = id,
                           !.reply = agent[r].result.answer,
                           !.turn = session.turns,
                           !.detectedWakeWord = req[r].detectedWakeWord,
                           !.knowledgeReferences =
                               agent[r].result.knowledgeReferences,
                           !.usedWebSearch = agent[r].result.usedWebSearch,
                           !.webSearchNote = agent[r].result.webSearchNote]]
                /\ SESSIONS' = IF inMap THEN [SESSIONS EXCEPT ![id] = session]
                               ELSE SESSIONS
                /\ detached' = IF inMap THEN detached
                               ELSE IF HeldElsewhere(id, r)
                                    THEN [detached EXCEPT ![id] = session]
                                    ELSE Without(detached, id)
    /\ req' = [req EXCEPT ![r] =
                  [IdleReq EXCEPT !.providedSessionId =
                                      req[r].providedSessionId,
                                  !.previous = req[r].previous]]
    /\ UNCHANGED <<nextId, sent, clock, agent, probe>>

\* the caller of slot r receives the response and may send its next request;
\* the locals of the respond() call it awaited are gone
Receive(r) ==
    /\ resp[r] # NoResponse
    /\ resp' = [resp EXCEPT ![r] = NoResponse]
    /\ req' = [req EXCEPT ![r] = IdleReq]
    /\ agent' = [agent EXCEPT ![r] = IdleAgent]
    /\ UNCHANGED <<SESSIONS, detached, nextId, sent, clock, probe>>

\* the caller of slot r receives the response and keeps its session id and
\* reply for its next request
ReceiveRemembering(r) ==
    /\ resp[r] # NoResponse
    /\ resp' = [resp EXCEPT ![r] = NoResponse]
    /\ req' = [req EXCEPT ![r] =
                  [IdleReq EXCEPT !.previous =
                      [sessionId |-> resp[r].sessionId,
                       reply |-> resp[r].reply]]]
    /\ agent' = [agent EXCEPT ![r] = IdleAgent]
    /\ UNCHANGED <<SESSIONS, detached, nextId, sent, clock, probe>>

\* time passes
TickSteps == {IDLE_MS, IDLE_MS + 1}

Tick ==
    /\ \E d \in TickSteps :
          /\ clock + d <= MaxTicks * (IDLE_MS + 1)
          /\ clock' = clock + d
    /\ UNCHANGED <<SESSIONS, detached, nextId, sent, req, agent, resp, probe>>

-----------------------------------------------------------------------------
(* The conversation endpoint, one request at a time *)

\* the agent runs the endpoint's requests meet: every error, and completed
\* runs with a strong match, without a lookup, over budget, with a web search
StrongTrace ==
    <<[matches |-> <<[id |-> "changi-jewel-rain-vortex", score |-> MIN_KNOWLEDGE_CONFIDENCE]>>]>>

Completed(usage, knowledgeLookups, webSearchCalls) ==
    [kind |-> "completed", finalOutput |-> RawAnswer, usage |-> usage,
     knowledgeLookups |-> knowledgeLookups, webSearchCalls |-> webSearchCalls]

RouteRuns ==
    FailedRuns \cup
    {Completed(AtLimit, StrongTrace, <<>>),
     Completed(AtLimit, <<>>, <<>>),
     Completed(AtLimit, <<>>, <<[arguments |-> Undefined]>>),
     Completed(AtLimit, StrongTrace, <<[arguments |-> WebQuery]>>),
     Completed([AtLimit EXCEPT !.totalTokens = MAX_TOKEN_BUDGET + 1],
               StrongTrace, <<>>)}

Next ==
    \/ PostBegin(1, MaxRequests, AnyBody)
    \/ LoadHistory(1)
    \/ LoadNotes(1)
    \/ PrimaryRun(1, RouteRuns)
    \/ FallbackRun(1, RouteRuns)
    \/ PostFinish(1)
    \/ Receive(1)
    \/ Tick

Spec == Init /\ [][Next]_vars

-----------------------------------------------------------------------------
(* The endpoint over a long session: one visitor, plain questions *)

LongRuns ==
    {Completed(AtLimit, StrongTrace, <<>>),
     Completed(AtLimit, <<>>, <<>>),
     [kind |-> "failed", error |-> "InputGuardrailTripwireTriggered"]}

NextLong ==
    \/ PostBegin(1, LongRequests, PlainBody)
    \/ LoadHistory(1)
    \/ LoadNotes(1)
    \/ PrimaryRun(1, LongRuns)
    \/ FallbackRun(1, LongRuns)
    \/ PostFinish(1)
    \/ Receive(1)

SpecLong == Init /\ [][NextLong]_vars

-----------------------------------------------------------------------------
(* The endpoint and a caller who remembers the previous response *)

\* questions and empty requests, on any session id handed out so far or none
StayBody ==
    [text |-> {<<>>, <<"q">>}, strippedText |-> {Undefined},
     wakeWordDetected |-> {"absent"},
     sessionId |-> {NoSessionId} \cup 1..nextId]

NextRecover ==
    \/ PostBegin(1, MaxRequests, StayBody)
    \/ LoadHistory(1)
    \/ LoadNotes(1)
    \/ PrimaryRun(1, RouteRuns)
    \/ FallbackRun(1, RouteRuns)
    \/ PostFinish(1)
    \/ ReceiveRemembering(1)
    \/ Tick

SpecRecover == Init /\ [][NextRecover]_vars

-----------------------------------------------------------------------------
(* lib/conversation.ts on its own: getSession called with any id handed out
   so far or none, between the writes the endpoint makes to the store *)

MaxCalls == 3
MaxStoreTurns == 1

InitStore ==
    /\ SESSIONS = <<>>
    /\ detached = <<>>
    /\ nextId = 0
    /\ sent = 0
    /\ clock = 0
    /\ req = [r \in Slots |-> IdleReq]
    /\ agent = [r \in Slots |-> IdleAgent]
    /\ resp = [r \in Slots |-> NoResponse]
    /\ probe = [fn |-> "getSession", calls |-> 0, sessionId |-> NoSessionId,
                returned |-> newSession(NoSessionId, 0)]

StoreGet ==
    /\ probe.fn = "getSession"
    /\ probe.calls < MaxCalls
    /\ \E sessionId \in {NoSessionId} \cup 1..nextId :
          LET got == getSession(sessionId)
          IN  /\ SESSIONS' = got.store
              /\ nextId' = got.issued
              /\ probe' = [probe EXCEPT !.calls = @ + 1,
                                        !.sessionId = sessionId,
                                        !.returned = got.session]
    /\ UNCHANGED <<detached, sent, clock, req, agent, resp>>

\* route.ts lines 97-105 on a stored session
StoreTurn ==
    /\ probe.fn = "getSession"
    /\ \E id \in DOMAIN SESSIONS :
          /\ SESSIONS[id].turns < MaxStoreTurns
          /\ SESSIONS' = [SESSIONS EXCEPT ![id] = RecordTurn(@, LangDefault)]
    /\ UNCHANGED <<detached, nextId, sent, clock, req, agent, resp, probe>>

\* route.ts lines 39 and 52 on a stored session
StoreDelete ==
    /\ probe.fn = "getSession"
    /\ \E id \in DOMAIN SESSIONS :
          /\ isExpired(SESSIONS[id])
          /\ SESSIONS' = Without(SESSIONS, id)
    /\ UNCHANGED <<detached, nextId, sent, clock, req, agent, resp, probe>>

NextStore == StoreGet \/ StoreTurn \/ StoreDelete \/ Tick

SpecStore == InitStore /\ [][NextStore]_vars

-----------------------------------------------------------------------------
(* The orchestrator alone: respond() called directly, over every run *)

Queries == {<<>>, <<" ">>, <<"q">>}

AgentCall(r) ==
    /\ agent[r].pc \in {"idle", "returned", "raised"}
    /\ \E query \in Queries : agent' = [agent EXCEPT ![r] = RespondStart(query)]
    /\ UNCHANGED <<SESSIONS, detached, nextId, sent, clock, req, resp, probe>>

NextAgent ==
    \/ AgentCall(1)
    \/ LoadHistory(1)
    \/ LoadNotes(1)
    \/ PrimaryRun(1, AllRuns)
    \/ FallbackRun(1, AllRuns)

SpecAgent == Init /\ [][NextAgent]_vars

\* the orchestrator when every promise respond() awaits settles: the history
\* and the notes are read from local files, and a run resolves or rejects
WeakTrace ==
    <<[matches |-> <<>>],
      [matches |-> <<[id |-> "changi-jewel-main",
                      score |-> MIN_KNOWLEDGE_CONFIDENCE - 1]>>]>>

FairRuns ==
    FailedRuns \cup
    [kind : {"completed"}, finalOutput : FinalOutputs, usage : Usages,
     knowledgeLookups : {<<>>, StrongTrace, WeakTrace},
     webSearchCalls : WebSearchCalls]

NextAgentFair ==
    \/ AgentCall(1)
    \/ LoadHistory(1)
    \/ LoadNotes(1)
    \/ PrimaryRun(1, FairRuns)
    \/ FallbackRun(1, FairRuns)

SpecAgentFair ==
    /\ Init
    /\ [][NextAgentFair]_vars
    /\ WF_vars(LoadHistory(1))
    /\ WF_vars(LoadNotes(1))
    /\ WF_vars(PrimaryRun(1, FairRuns))
    /\ WF_vars(FallbackRun(1, FairRuns))

-----------------------------------------------------------------------------
(* shouldFallbackToWebSearch as a function of its arguments *)

ProbeAnswers == {<<>>, <<" ">>, <<"a">>}

DecideProbes ==
    {[fn |-> "shouldFallbackToWebSearch", applied |-> FALSE, result |-> FALSE,
      response |-> [answer |-> a,
                    knowledgeReferences |-> Dedup(MatchIds(FlatMatches(t)), <<>>),
                    usedWebSearch |-> w, webSearchNote |-> Undefined],
      runTrace |-> [knowledgeLookups |-> t]] :
        a \in ProbeAnswers, w \in BOOLEAN, t \in Traces}

InitDecide ==
    /\ SESSIONS = <<>>
    /\ detached = <<>>
    /\ nextId = 0
    /\ sent = 0
    /\ clock = 0
    /\ req = [r \in Slots |-> IdleReq]
    /\ agent = [r \in Slots |-> IdleAgent]
    /\ resp = [r \in Slots |-> NoResponse]
    /\ probe \in DecideProbes

Decide ==
    /\ probe.fn = "shouldFallbackToWebSearch"
    /\ ~probe.applied
    /\ probe' = [probe EXCEPT
                    !.applied = TRUE,
                    !.result = shouldFallbackToWebSearch(probe.response,
                                                         probe.runTrace)]
    /\ UNCHANGED <<SESSIONS, detached, nextId, sent, clock, req, agent, resp>>

SpecDecide == InitDecide /\ [][Decide]_vars

-----------------------------------------------------------------------------
(* lib/conversation-history.ts, the version that keeps one list per session:
   appends, and the load that respond() makes for a turn *)

MaxAppends == 3
MaxEntries == 2

\* the first argument of this.historyStore.loadHistory(10, sessionId)
HISTORY_LIMIT == 10

ArchiveSessions == {1, 2}

\* {}: what readSessionHistory returns when the file is absent or the read
\* fails; a missing key and an empty list read the same
EmptyHistory == [k \in ArchiveSessions |-> <<>>]

\* a ConversationRecord; user, assistant and timestamp are abstracted to
\* the ordinal of the append
Record(sessionId, n) == [sessionId |-> sessionId, n |-> n]

\* a splice that drops the newest records
SpliceNewest(records, maxEntries) ==
    IF Len(records) > maxEntries THEN SubSeq(records, 1, maxEntries)
    ELSE records

\* lines 153-158: records.splice(0, records.length - maxEntries)
SpliceOldest(records, maxEntries) ==
    IF Len(records) > maxEntries
    THEN SubSeq(records, Len(records) - maxEntries + 1, Len(records))
    ELSE records

\* appendToSession(record) on the session history that was read
appendToSession(sessionHistory, record, maxEntries) ==
    [sessionHistory EXCEPT
        ![record.sessionId] = SpliceOldest(Append(@, record), maxEntries)]

\* loadSessionHistory(sessionId, limit) on the session history that was read
loadSessionHistory(sessionHistory, sessionId, limit) ==
    LET records == IF sessionId \in DOMAIN sessionHistory
                   THEN sessionHistory[sessionId] ELSE <<>>
    IN  IF records = <<>> THEN <<>>
        ELSE LET sliceStart == IF Len(records) - limit > 0
                               THEN Len(records) - limit ELSE 0
             IN  SubSeq(records, sliceStart + 1, Len(records))

\* loadHistory(sessionId, limit = 10)
loadHistory(sessionHistory, sessionId, limit) ==
    loadSessionHistory(sessionHistory, sessionId, limit)

\* file is the content of the history file; appended is the list of the
\* records each session was appended, from the start; readFailed tells
\* whether a read of an append has failed so far; loaded is the history
\* respond() got for a turn of session loadedFor, loadRead whether its read
\* of the file succeeded
InitArchive ==
    /\ SESSIONS = <<>>
    /\ detached = <<>>
    /\ nextId = 0
    /\ sent = 0
    /\ clock = 0
    /\ req = [r \in Slots |-> IdleReq]
    /\ agent = [r \in Slots |-> IdleAgent]
    /\ resp = [r \in Slots |-> NoResponse]
    /\ \E m \in 1..MaxEntries :
          probe = [fn |-> "history", maxEntries |-> m, file |-> EmptyHistory,
                   appended |-> EmptyHistory, appends |-> 0,
                   readFailed |-> FALSE, loads |-> 0, loadedFor |-> NoSessionId,
                   loadRead |-> FALSE, loaded |-> <<>>]

\* await append(record): read, push, splice, write
ArchiveAppend ==
    /\ probe.fn = "history"
    /\ probe.appends < MaxAppends
    /\ \E sessionId \in ArchiveSessions, readOk \in BOOLEAN :
          LET record == Record(sessionId, probe.appends + 1)
              sessionHistory == IF readOk THEN probe.file ELSE EmptyHistory
          IN  probe' = [probe EXCEPT
                          !.appends = @ + 1,
                          !.file = appendToSession(sessionHistory, record,
                                                   probe.maxEntries),
                          !.appended[sessionId] = Append(@, record),
                          !.readFailed = @ \/ ~readOk]
    /\ UNCHANGED <<SESSIONS, detached, nextId, sent, clock, req, agent, resp>>

\* tour-agent.ts lines 315-323: respond() of a turn of session sessionId
\* loads the history; a failed read gives {} and so []
ArchiveLoad ==
    /\ probe.fn = "history"
    /\ probe.loads < 1
    /\ \E sessionId \in ArchiveSessions, readOk \in BOOLEAN :
          LET sessionHistory == IF readOk THEN probe.file ELSE EmptyHistory
          IN  probe' = [probe EXCEPT
                          !.loads = @ + 1,
                          !.loadedFor = sessionId,
                          !.loadRead = readOk,
                          !.loaded = loadHistory(sessionHistory, HISTORY_LIMIT,
                                                 sessionId)]
    /\ UNCHANGED <<SESSIONS, detached, nextId, sent, clock, req, agent, resp>>

NextArchive == ArchiveAppend \/ ArchiveLoad

SpecArchive == InitArchive /\ [][NextArchive]_vars

-----------------------------------------------------------------------------
(* detectAndStripWakeWord on its own, both versions, applied to a text and
   then to its own result *)

MaxTextLen == 5

WakeAlphabet == {"a", "A", "b", " ", ","}

WakeTexts == SeqsUpTo(WakeAlphabet, MaxTextLen)

WakePhrases == {<<>>, <<" ">>, <<"a">>, <<"a", "b">>, <<"a", " ", "b">>}

HeyGuide == <<"h", "e", "y", " ", "g", "u", "i", "d", "e">>

TextAfterOtherWords ==
    <<"I", " ", "l", "o", "v", "e", " ">> \o HeyGuide
        \o <<" ", "t", "r", "i", "v", "i", "a">>

TextWithComma == HeyGuide \o <<",", " ", "t", "e", "l", "l">>

TextIrregular == <<" ", "H", "e", "y", " ", " ", "g", "u", "i", "d", "e", " ", "g", "o">>

TextLongerWord == HeyGuide \o <<"b", "o", "o", "k">>

NoDetection == [matched |-> FALSE, stripped |-> <<>>, wakeWord |-> <<>>]

WakeProbe(t, w) ==
    [fn |-> "detectAndStripWakeWord", applied |-> 0, text |-> t, wakeWord |-> w,
     result |-> NoDetection, later |-> NoDetection,
     again |-> NoDetection, laterAgain |-> NoDetection]

WakeProbes ==
    {WakeProbe(t, w) : t \in WakeTexts, w \in WakePhrases}
        \cup {WakeProbe(t, HeyGuide) :
                  t \in {TextAfterOtherWords, TextWithComma, TextIrregular,
                         TextLongerWord}}

InitWake ==
    /\ SESSIONS = <<>>
    /\ detached = <<>>
    /\ nextId = 0
    /\ sent = 0
    /\ clock = 0
    /\ req = [r \in Slots |-> IdleReq]
    /\ agent = [r \in Slots |-> IdleAgent]
    /\ resp = [r \in Slots |-> NoResponse]
    /\ probe \in WakeProbes

Detect ==
    /\ probe.fn = "detectAndStripWakeWord"
    /\ probe.applied = 0
    /\ probe' = [probe EXCEPT
                    !.applied = 1,
                    !.result = detectAndStripWakeWord(probe.text, probe.wakeWord),
                    !.later = detectAndStripWakeWordLater(probe.text,
                                                          probe.wakeWord)]
    /\ UNCHANGED <<SESSIONS, detached, nextId, sent, clock, req, agent, resp>>

DetectAgain ==
    /\ probe.fn = "detectAndStripWakeWord"
    /\ probe.applied = 1
    /\ probe' = [probe EXCEPT
                    !.applied = 2,
                    !.again = detectAndStripWakeWord(probe.result.stripped,
                                                     probe.wakeWord),
                    !.laterAgain = detectAndStripWakeWordLater(
                                       probe.later.stripped, probe.wakeWord)]
    /\ UNCHANGED <<SESSIONS, detached, nextId, sent, clock, req, agent, resp>>

NextWake == Detect \/ DetectAgain

SpecWake == InitWake /\ [][NextWake]_vars

-----------------------------------------------------------------------------
(* The knowledge scorer: lib/tools/agent-tools.ts, and the earlier weighted
   scorer that lives beside the agent in one file *)

\* [a-z0-9], the characters a token is made of
TokenChars ==
    {"a", "b", "c", "d", "e", "f", "g", "h", "i", "j", "k", "l", "m", "n",
     "o", "p", "q", "r", "s", "t", "u", "v", "w", "x", "y", "z",
     "0", "1", "2", "3", "4", "5", "6", "7", "8", "9"}

\* String.prototype.toLowerCase
ToLowerText(s) == [i \in 1..Len(s) |-> ToLower(s[i])]

\* .replace(/[^a-z0-9\s]+/g, " "): every maximal run of other characters
\* becomes one space
RECURSIVE ReplaceOthers(_, _, _)
ReplaceOthers(s, i, inRun) ==
    IF i > Len(s) THEN <<>>
    ELSE IF s[i] \in TokenChars \cup WS
         THEN <<s[i]>> \o ReplaceOthers(s, i + 1, FALSE)
         ELSE IF inRun THEN ReplaceOthers(s, i + 1, TRUE)
              ELSE <<" ">> \o ReplaceOthers(s, i + 1, TRUE)

\* .filter(Boolean) on a list of strings
RECURSIVE FilterNonEmpty(_)
FilterNonEmpty(words) ==
    IF words = <<>> THEN <<>>
    ELSE IF Head(words) = <<>> THEN FilterNonEmpty(Tail(words))
    ELSE <<Head(words)>> \o FilterNonEmpty(Tail(words))

\* agent-tools.ts: lower-case, replace, split(/\s+/), filter(Boolean)
tokenize(text) ==
    FilterNonEmpty(SplitWS(ReplaceOthers(ToLowerText(text), 1, FALSE),
                           <<>>, <<>>))

\* the weighted scorer's tokenize: the loop over i = 0..cleaned.length that
\* pushes cleaned.slice(start, i) at every whitespace character and at the
\* end when i > start (positions here are 1-based)
RECURSIVE TokenizeLoop(_, _, _, _)
TokenizeLoop(cleaned, i, start, tokens) ==
    IF i > Len(cleaned) + 1 THEN tokens
    ELSE IF i = Len(cleaned) + 1 \/ cleaned[i] \in WS
         THEN TokenizeLoop(cleaned, i + 1, i + 1,
                           IF i > start
                           THEN Append(tokens, SubSeq(cleaned, start, i - 1))
                           ELSE tokens)
         ELSE TokenizeLoop(cleaned, i + 1, start, tokens)

tokenizeWeighted(text) ==
    TokenizeLoop(ReplaceOthers(ToLowerText(text), 1, FALSE), 1, 1, <<>>)

\* String.prototype.includes
Includes(hay, needle) ==
    \E i \in 1..Len(hay) - Len(needle) + 1 :
        SubSeq(hay, i, i + Len(needle) - 1) = needle

\* entry.tags?.some(tag => tag.toLowerCase().includes(token)); an entry
\* without tags has the empty list here
TagsInclude(entry, token) ==
    \E k \in 1..Len(entry.tags) : Includes(ToLowerText(entry.tags[k]), token)

\* scores are kept in halves, so that exactMatches * 0.5 stays an integer
ScoreUnit == 2

\* a scored entry, or the null that scoreEntry returns for a score of 0
NoMatch == [matched |-> FALSE, id |-> 0, score |-> 0, highlights |-> <<>>]

Highlights(entry) ==
    (IF entry.summary # <<>> THEN <<entry.summary>> ELSE <<>>)
        \o (IF entry.details # <<>> THEN <<entry.details>> ELSE <<>>)

KnowledgeMatch(entry, score) ==
    IF score = 0 THEN NoMatch
    ELSE [matched |-> TRUE, id |-> entry.id, score |-> score,
          highlights |-> Highlights(entry)]

\* what one token adds to score in the weighted scorer's loop: the first
\* branch of the if / else-if chain that applies
TokenWeight(entry, token) ==
    IF Includes(ToLowerText(entry.name), token) THEN 3 * ScoreUnit
    ELSE IF Includes(ToLowerText(entry.summary), token) THEN 2 * ScoreUnit
    ELSE IF Includes(ToLowerText(entry.details), token) THEN 1 * ScoreUnit
    ELSE IF TagsInclude(entry, token) THEN 2 * ScoreUnit
    ELSE 0

\* the same loop with score = 3 where the code has score += 3
RECURSIVE WeightedSumAssigning(_, _)
WeightedSumAssigning(entry, queryTokens) ==
    IF queryTokens = <<>> THEN 0
    ELSE LET token == queryTokens[Len(queryTokens)]
             before == WeightedSumAssigning(
                           entry, SubSeq(queryTokens, 1, Len(queryTokens) - 1))
         IN  IF Includes(ToLowerText(entry.name), token) THEN 3 * ScoreUnit
             ELSE before + TokenWeight(entry, token)

RECURSIVE WeightedSum(_, _)
WeightedSum(entry, queryTokens) ==
    IF queryTokens = <<>> THEN 0
    ELSE WeightedSum(entry, Tail(queryTokens))
             + TokenWeight(entry, Head(queryTokens))

\* exactMatches: the tokens found in the name, each occurrence counted
RECURSIVE ExactMatches(_, _)
ExactMatches(entry, queryTokens) ==
    IF queryTokens = <<>> THEN 0
    ELSE ExactMatches(entry, Tail(queryTokens))
             + (IF Includes(ToLowerText(entry.name), Head(queryTokens))
                THEN 1 ELSE 0)

\* the weighted scorer's scoreEntry
scoreEntryWeighted(entry, queryTokens) ==
    LET score == WeightedSum(entry, queryTokens)
    IN  KnowledgeMatch(entry,
            IF score = 0 THEN 0
            ELSE score + ExactMatches(entry, queryTokens) * (ScoreUnit \div 2))

RECURSIVE JoinWith(_, _)
\* Array.prototype.join
JoinWith(parts, sep) ==
    IF parts = <<>> THEN <<>>
    ELSE IF Len(parts) = 1 THEN parts[1]
    ELSE parts[1] \o sep \o JoinWith(Tail(parts), sep)

\* agent-tools.ts scoreEntry: one point for every token found in the
\* lower-cased join of name, summary, details and tags
Haystack(entry) ==
    ToLowerText(JoinWith(<<entry.name, entry.summary, entry.details,
                           JoinWith(entry.tags, <<" ">>)>>, <<" ">>))

RECURSIVE HaystackHits(_, _)
HaystackHits(entry, queryTokens) ==
    IF queryTokens = <<>> THEN 0
    ELSE HaystackHits(entry, Tail(queryTokens))
             + (IF Includes(Haystack(entry), Head(queryTokens)) THEN 1 ELSE 0)

scoreEntry(entry, queryTokens) ==
    KnowledgeMatch(entry, HaystackHits(entry, queryTokens) * ScoreUnit)

\* Array.prototype.filter, keeping the entries that scored
RECURSIVE FilterMatched(_)
FilterMatched(ms) ==
    IF ms = <<>> THEN <<>>
    ELSE IF Head(ms).matched THEN <<Head(ms)>> \o FilterMatched(Tail(ms))
    ELSE FilterMatched(Tail(ms))

\* a sort that puts an element before its equals
RECURSIVE SortByScoreUnstable(_)
SortByScoreUnstable(ms) ==
    IF ms = <<>> THEN <<>>
    ELSE LET rest == SortByScoreUnstable(SubSeq(ms, 1, Len(ms) - 1))
             m == ms[Len(ms)]
             before == {k \in 1..Len(rest) : rest[k].score > m.score}
             n == Cardinality(before)
         IN  SubSeq(rest, 1, n) \o <<m>> \o SubSeq(rest, n + 1, Len(rest))

\* matches.sort((a, b) => b.score - a.score): Array.prototype.sort is
\* stable, so an element stays behind those of an equal score before it
RECURSIVE SortByScore(_)
SortByScore(ms) ==
    IF ms = <<>> THEN <<>>
    ELSE LET rest == SortByScore(SubSeq(ms, 1, Len(ms) - 1))
             m == ms[Len(ms)]
             before == {k \in 1..Len(rest) : rest[k].score >= m.score}
             n == Cardinality(before)
         IN  SubSeq(rest, 1, n) \o <<m>> \o SubSeq(rest, n + 1, Len(rest))

\* Array.prototype.slice(0, limit)
SliceFirst(ms, limit) ==
    IF limit >= 0
    THEN SubSeq(ms, 1, IF limit < Len(ms) THEN limit ELSE Len(ms))
    ELSE SubSeq(ms, 1, Len(ms) + limit)

\* agent-tools.ts: KNOWLEDGE.entries is the parameter index
searchKnowledgeIndex(index, query, limit) ==
    IF Trim(query) = <<>> THEN <<>>
    ELSE LET tokens == tokenize(query)
         IN  IF tokens = <<>> THEN <<>>
             ELSE SliceFirst(
                      SortByScore(FilterMatched(
                          [k \in 1..Len(index) |-> scoreEntry(index[k], tokens)])),
                      limit)

\* the weighted scorer's searchKnowledgeIndex
searchKnowledgeIndexWeighted(index, query, limit) ==
    IF Trim(query) = <<>> THEN <<>>
    ELSE LET tokens == tokenizeWeighted(query)
         IN  IF tokens = <<>> THEN <<>>
             ELSE SliceFirst(
                      SortByScore(FilterMatched(
                          [k \in 1..Len(index) |->
                              scoreEntryWeighted(index[k], tokens)])),
                      limit)

-----------------------------------------------------------------------------
(* The weighted scoreEntry on its own: one entry scored for a token list and
   for the same list with one more token *)

MaxTokens == 2

QueryTokens == {<<"a">>, <<"b">>}

EntryNames == {<<"A">>, <<"b">>, <<"c">>}

FieldTexts == {<<>>, <<"a">>, <<"b">>}

TagLists == {<<>>, <<<<"a">>>>, <<<<"b">>>>, <<<<"c">>, <<"A">>>>}

ScoreProbes ==
    {[fn |-> "scoreEntry", applied |-> FALSE,
      entry |-> [id |-> 1, name |-> n, summary |-> s, details |-> d, tags |-> g],
      queryTokens |-> q, token |-> t, before |-> NoMatch, after |-> NoMatch] :
        n \in EntryNames, s \in FieldTexts, d \in FieldTexts, g \in TagLists,
        q \in SeqsUpTo(QueryTokens, MaxTokens), t \in QueryTokens}

InitScore ==
    /\ SESSIONS = <<>>
    /\ detached = <<>>
    /\ nextId = 0
    /\ sent = 0
    /\ clock = 0
    /\ req = [r \in Slots |-> IdleReq]
    /\ agent = [r \in Slots |-> IdleAgent]
    /\ resp = [r \in Slots |-> NoResponse]
    /\ probe \in ScoreProbes

Score ==
    /\ probe.fn = "scoreEntry"
    /\ ~probe.applied
    /\ probe' = [probe EXCEPT
                    !.applied = TRUE,
                    !.before = scoreEntryWeighted(probe.entry, probe.queryTokens),
                    !.after = scoreEntryWeighted(
                                  probe.entry,
                                  Append(probe.queryTokens, probe.token))]
    /\ UNCHANGED <<SESSIONS, detached, nextId, sent, clock, req, agent, resp>>

SpecScore == InitScore /\ [][Score]_vars

-----------------------------------------------------------------------------
(* searchKnowledgeIndex on its own, both scorers, over small indexes *)

MaxIndexLen == 3
MaxLimit == 2

SearchPool ==
    {[name |-> <<"a">>, summary |-> <<>>, details |-> <<>>, tags |-> <<>>],
     [name |-> <<"b">>, summary |-> <<"a">>, details |-> <<>>, tags |-> <<>>],
     [name |-> <<"c">>, summary |-> <<>>, details |-> <<"a">>,
      tags |-> <<<<"b">>>>],
     [name |-> <<"A", " ", "b">>, summary |-> <<>>, details |-> <<>>,
      tags |-> <<>>]}

\* the entries of an index, each with its position as id
WithIds(entries) ==
    [k \in 1..Len(entries) |->
        [id |-> k, name |-> entries[k].name, summary |-> entries[k].summary,
         details |-> entries[k].details, tags |-> entries[k].tags]]

SearchQueries ==
    {<<>>, <<" ">>, <<"!">>, <<"a">>, <<"c">>, <<"A", "-", "b">>,
     <<"b", " ", "a">>, <<" ", "a", " ", " ", "a">>}

SearchProbes ==
    {[fn |-> "searchKnowledgeIndex", applied |-> FALSE,
      index |-> WithIds(x), query |-> q, limit |-> l,
      matches |-> <<>>, weighted |-> <<>>] :
        x \in SeqsUpTo(SearchPool, MaxIndexLen), q \in SearchQueries,
        l \in 1..MaxLimit}

InitSearch ==
    /\ SESSIONS = <<>>
    /\ detached = <<>>
    /\ nextId = 0
    /\ sent = 0
    /\ clock = 0
    /\ req = [r \in Slots |-> IdleReq]
    /\ agent = [r \in Slots |-> IdleAgent]
    /\ resp = [r \in Slots |-> NoResponse]
    /\ probe \in SearchProbes

Search ==
    /\ probe.fn = "searchKnowledgeIndex"
    /\ ~probe.applied
    /\ probe' = [probe EXCEPT
                    !.applied = TRUE,
                    !.matches = searchKnowledgeIndex(probe.index, probe.query,
                                                     probe.limit),
                    !.weighted = searchKnowledgeIndexWeighted(
                                     probe.index, probe.query, probe.limit)]
    /\ UNCHANGED <<SESSIONS, detached, nextId, sent, clock, req, agent, resp>>

SpecSearch == InitSearch /\ [][Search]_vars

-----------------------------------------------------------------------------
(* Properties of the endpoint *)

\* the requests of the long session answered so far (each with status 200)
SuccessfulTurns == IF req[1].pc = "awaiting" THEN sent - 1 ELSE sent

Min(a, b) == IF a <= b THEN a ELSE b

C2_IdleExpiryOnAccess ==
    [][\A id \in DOMAIN SESSIONS :
          ( /\ sent' = sent + 1
            /\ req'[1].providedSessionId = id
            /\ resp'[1].status # 400
            /\ clock - SESSIONS[id].lastSeenAt > IDLE_MS )
          => /\ resp'[1].status = 200
             /\ resp'[1].ended
             /\ resp'[1].endReason = EndIdleTimeout
             /\ resp'[1].sessionId = id
             /\ resp'[1].turn = SESSIONS[id].turns
             /\ DOMAIN SESSIONS' = DOMAIN SESSIONS \ {id}
             /\ \A k \in DOMAIN SESSIONS' : SESSIONS'[k] = SESSIONS[k]
             /\ nextId' = nextId
             /\ req'[1].pc = "idle"
             /\ agent' = agent
             /\ agent[1].pc = "idle"]_vars

\* a session that had a turn was found expired and removed
C2_Witness ==
    /\ resp[1].ended
    /\ resp[1].endReason = EndIdleTimeout
    /\ resp[1].turn >= 1
    /\ resp[1].sessionId = req[1].providedSessionId
    /\ resp[1].sessionId \notin DOMAIN SESSIONS

\* C3: a request on a brand-new session (turns = 0) in which no wake phrase
\* is detected is rejected: the agent is not called for it, and no response
\* reports the session advanced to turn 1 without a detected wake phrase
C3_FirstTurnWakeGate ==
    /\ ~ ( /\ req[1].pc = "awaiting"
           /\ ~req[1].detectedWakeWord
           /\ Deref(req[1].session).turns = 0 )
    /\ ~ ( /\ resp[1].status = 200
           /\ ~resp[1].ended
           /\ ~resp[1].detectedWakeWord
           /\ resp[1].turn = 1 )

\* the first turn of a new session answered with no wake phrase detected
C3_Witness ==
    /\ resp[1].status = 200
    /\ resp[1].error = Undefined
    /\ ~resp[1].ended
    /\ ~resp[1].detectedWakeWord
    /\ resp[1].turn = 1
    /\ resp[1].sessionId \in DOMAIN SESSIONS
    /\ SESSIONS[resp[1].sessionId].turns = 1
    /\ Len(SESSIONS[resp[1].sessionId].messages) = 2

\* C4: when the orchestrator's outcome for a turn is a failure (a guardrail
\* rejection, the turn limit, the budget message, an unexpected error), the
\* request leaves the turns and messages of every session as they were
C4_FailedTurnFrame ==
    [][( /\ req[1].pc = "awaiting"
         /\ req'[1].pc = "idle"
         /\ \/ agent[1].pc = "raised"
            \/ agent[1].runLog[Len(agent[1].runLog)].outcome # "completed"
            \/ agent[1].result.answer = MsgBudget )
       => \A id \in DOMAIN SESSIONS :
             /\ id \in DOMAIN SESSIONS'
             /\ SESSIONS'[id].turns = SESSIONS[id].turns
             /\ SESSIONS'[id].messages = SESSIONS[id].messages]_vars

\* a turn the input guardrail rejected is recorded in the session
C4_Witness ==
    /\ resp[1].status = 200
    /\ resp[1].reply = MsgInputGuardrail
    /\ resp[1].turn = 1
    /\ resp[1].sessionId \in DOMAIN SESSIONS
    /\ SESSIONS[resp[1].sessionId].turns = 1
    /\ Len(SESSIONS[resp[1].sessionId].messages) = 2

-----------------------------------------------------------------------------
(* Properties of the orchestrator *)

GuardrailTripwires ==
    {"InputGuardrailTripwireTriggered", "OutputGuardrailTripwireTriggered"}

\* C5: one call of respond executes at most two runs, of which at most one
\* is a fallback run (the second, started once), and the call reaches a
\* terminal outcome: it returns or raises
C5_BoundedEscalation ==
    /\ [](/\ Len(agent[1].runLog) <= 2
          /\ agent[1].pc = "fallback" =>
                Len(agent[1].runLog) = 1 /\ agent[1].fallbackAttempted
          /\ Len(agent[1].runLog) = 2 => agent[1].fallbackAttempted)
    /\ (agent[1].pc \in {"history", "notes", "primary", "fallback"}
          ~> agent[1].pc \in {"returned", "raised"})

\* a call that returned after its primary and its fallback run
C5_Witness ==
    /\ agent[1].pc = "returned"
    /\ agent[1].fallbackAttempted
    /\ Len(agent[1].runLog) = 2
    /\ agent[1].runLog[2].outcome = "completed"

\* C8: if a run that completed during the call (primary or fallback)
\* reported totalTokens > MAX_TOKEN_BUDGET or requests > MAX_REQUEST_COUNT,
\* respond returns the "processing budget" message with no references
C8_BudgetShortCircuit ==
    ( /\ agent[1].pc = "returned"
      /\ \E i \in 1..Len(agent[1].runLog) :
            /\ agent[1].runLog[i].outcome = "completed"
            /\ \/ agent[1].runLog[i].usage.totalTokens > MAX_TOKEN_BUDGET
               \/ agent[1].runLog[i].usage.requests > MAX_REQUEST_COUNT )
    => /\ agent[1].result.answer = MsgBudget
       /\ agent[1].result.knowledgeReferences = <<>>

\* the primary run went over the token budget, the fallback run stayed
\* within it, and the fallback run's answer was returned with references
C8_Witness ==
    /\ agent[1].pc = "returned"
    /\ Len(agent[1].runLog) = 2
    /\ agent[1].runLog[1].usage.totalTokens > MAX_TOKEN_BUDGET
    /\ agent[1].runLog[2].outcome = "completed"
    /\ agent[1].result.answer = Trim(RawAnswer)
    /\ agent[1].result.knowledgeReferences # <<>>

\* C9: respond returns an AgentResponse and never raises, for every query
\* and every outcome of its awaits
C9_NoFaultEscapes == agent[1].pc # "raised"

\* respond raised on a whitespace-only query
C9_Witness ==
    /\ agent[1].pc = "raised"
    /\ agent[1].query = <<" ">>
    /\ agent[1].error = ErrQueryRequired
    /\ agent[1].runLog = <<>>

\* C10: a run that raises a guardrail tripwire is the last run of the call:
\* respond returns the fixed apology of that guardrail with no references
\* and usedWebSearch = false
C10_GuardrailTerminal ==
    \A i \in 1..Len(agent[1].runLog) :
        agent[1].runLog[i].outcome \in GuardrailTripwires
        => /\ i = Len(agent[1].runLog)
           /\ agent[1].pc = "returned"
           /\ agent[1].result.answer =
                 IF agent[1].runLog[i].outcome = "InputGuardrailTripwireTriggered"
                 THEN MsgInputGuardrail ELSE MsgOutputGuardrail
           /\ agent[1].result.knowledgeReferences = <<>>
           /\ ~agent[1].result.usedWebSearch

\* the primary run tripped the input guardrail and the call returned
C10_Witness ==
    /\ agent[1].pc = "returned"
    /\ Len(agent[1].runLog) = 1
    /\ agent[1].runLog[1].outcome = "InputGuardrailTripwireTriggered"
    /\ agent[1].result.answer = MsgInputGuardrail
    /\ ~agent[1].fallbackAttempted

-----------------------------------------------------------------------------
(* Properties of the escalation decision *)

\* the answer of the summary under decision is empty or whitespace
ProbeBlank ==
    \A i \in 1..Len(probe.response.answer) : probe.response.answer[i] \in WS

\* the matches of every lookup of the trace under decision
ProbeMatches ==
    {probe.runTrace.knowledgeLookups[i].matches[j] :
        <<i, j>> \in {p \in (1..MaxLookups) \X (1..Cardinality(EntryIds)) :
                        /\ p[1] <= Len(probe.runTrace.knowledgeLookups)
                        /\ p[2] <= Len(probe.runTrace.knowledgeLookups[p[1]].matches)}}

\* C6: for a summary that did not use web search, the decision is true
\* exactly when the answer is blank, or the trace has no lookup, or the
\* lookups returned no match at all, or the best score of all matches is
\* below MIN_KNOWLEDGE_CONFIDENCE
C6_DecisionTable ==
    (probe.fn = "shouldFallbackToWebSearch" /\ probe.applied
        /\ ~probe.response.usedWebSearch)
    => probe.result =
          ( \/ ProbeBlank
            \/ Len(probe.runTrace.knowledgeLookups) = 0
            \/ ProbeMatches = {}
            \/ \A m \in ProbeMatches : m.score < MIN_KNOWLEDGE_CONFIDENCE )

\* no escalation: a worded answer, a lookup without matches and a lookup
\* whose best match reaches the threshold exactly
C6_Witness ==
    /\ probe.fn = "shouldFallbackToWebSearch" /\ probe.applied
    /\ ~probe.response.usedWebSearch
    /\ ~ProbeBlank
    /\ Len(probe.runTrace.knowledgeLookups) = 2
    /\ probe.runTrace.knowledgeLookups[1].matches = <<>>
    /\ \E m \in ProbeMatches : m.score = MIN_KNOWLEDGE_CONFIDENCE
    /\ \E m \in ProbeMatches : m.score < MIN_KNOWLEDGE_CONFIDENCE
    /\ ~probe.result

-----------------------------------------------------------------------------
(* Properties of a turn with an escalation *)

\* the run logged at position i completed within the budget
WithinBudget(i) ==
    /\ agent[1].runLog[i].outcome = "completed"
    /\ agent[1].runLog[i].usage.totalTokens <= MAX_TOKEN_BUDGET
    /\ agent[1].runLog[i].usage.requests <= MAX_REQUEST_COUNT

\* the run logged at position i completed and its worded summary is one
\* shouldFallbackToWebSearch escalates
Questionable(i) ==
    /\ agent[1].runLog[i].outcome = "completed"
    /\ ~agent[1].runLog[i].usedWebSearch
    /\ \/ agent[1].runLog[i].lookups = 0
       \/ agent[1].runLog[i].matchIds = {}
       \/ agent[1].runLog[i].topScore < MIN_KNOWLEDGE_CONFIDENCE

\* C11: when a call executed a primary and a fallback run and is answered
\* normally, knowledgeReferences lists, without duplicates, the ids of the
\* matches of every lookup of the primary run and of the fallback run
C11_ReferencesSpanBothRuns ==
    ( /\ agent[1].pc = "returned"
      /\ Len(agent[1].runLog) = 2
      /\ WithinBudget(2) )
    => LET refs == agent[1].result.knowledgeReferences
       IN  /\ {refs[i] : i \in 1..Len(refs)} =
                 agent[1].runLog[1].matchIds \cup agent[1].runLog[2].matchIds
           /\ \A i, j \in 1..Len(refs) : refs[i] = refs[j] => i = j

\* the primary run's lookups matched an entry, the fallback run's matched
\* none, and the normal answer carries no reference
C11_Witness ==
    /\ agent[1].pc = "returned"
    /\ Len(agent[1].runLog) = 2
    /\ WithinBudget(1)
    /\ WithinBudget(2)
    /\ agent[1].runLog[1].matchIds # {}
    /\ agent[1].runLog[2].matchIds = {}
    /\ agent[1].result.answer = Trim(RawAnswer)
    /\ agent[1].result.knowledgeReferences = <<>>

\* C12, as stated: when the primary run's lookups return zero matches, the
\* call executes the primary and then the fallback run, and the response
\* has usedWebSearch = true
C12_ZeroMatchScenario ==
    ( /\ agent[1].pc = "returned"
      /\ Len(agent[1].runLog) >= 1
      /\ agent[1].runLog[1].outcome = "completed"
      /\ agent[1].runLog[1].lookups >= 1
      /\ agent[1].runLog[1].matchIds = {} )
    => /\ Len(agent[1].runLog) = 2
       /\ agent[1].result.usedWebSearch

\* C12, amended: when the primary run completes without a web search call
\* and its lookups return zero matches, the fallback run is started next and
\* the call returns after it; the response has usedWebSearch = true exactly
\* when the fallback run completed and called the web search tool
C12_ZeroMatchEscalates ==
    ( /\ Len(agent[1].runLog) >= 1
      /\ agent[1].runLog[1].outcome = "completed"
      /\ ~agent[1].runLog[1].usedWebSearch
      /\ agent[1].runLog[1].matchIds = {} )
    => /\ agent[1].fallbackAttempted
       /\ Len(agent[1].runLog) = 1 => agent[1].pc = "fallback"
       /\ Len(agent[1].runLog) = 2 =>
             /\ agent[1].pc = "returned"
             /\ agent[1].result.usedWebSearch =
                   ( /\ agent[1].runLog[2].outcome = "completed"
                     /\ agent[1].runLog[2].usedWebSearch )

\* zero matches in the primary run, then a fallback run that searched the web
C12_Witness ==
    /\ agent[1].pc = "returned"
    /\ Len(agent[1].runLog) = 2
    /\ agent[1].runLog[1].lookups >= 1
    /\ agent[1].runLog[1].matchIds = {}
    /\ agent[1].runLog[2].usedWebSearch
    /\ agent[1].result.usedWebSearch

\* C13, as stated: a first request on a new session with a detected wake
\* phrase whose primary run returns an answer and a match scoring at least
\* MIN_KNOWLEDGE_CONFIDENCE is answered after exactly one run, with
\* usedWebSearch = false, a non-empty knowledgeReferences and meta.turn = 1.
\* (Every completed run of RouteRuns has a worded finalOutput.)
C13_StrongMatchScenario ==
    ( /\ resp[1].status = 200
      /\ ~resp[1].ended
      /\ resp[1].sessionId # req[1].providedSessionId
      /\ resp[1].detectedWakeWord
      /\ agent[1].runLog[1].outcome = "completed"
      /\ agent[1].runLog[1].topScore >= MIN_KNOWLEDGE_CONFIDENCE )
    => /\ Len(agent[1].runLog) = 1
       /\ ~resp[1].usedWebSearch
       /\ resp[1].knowledgeReferences # <<>>
       /\ resp[1].turn = 1

\* C13, amended: the same when the primary run stayed within the budget and
\* made no web search call; the reply is then the run's answer
C13_StrongMatchWithinBudget ==
    ( /\ resp[1].status = 200
      /\ ~resp[1].ended
      /\ resp[1].sessionId # req[1].providedSessionId
      /\ resp[1].detectedWakeWord
      /\ WithinBudget(1)
      /\ ~agent[1].runLog[1].usedWebSearch
      /\ agent[1].runLog[1].topScore >= MIN_KNOWLEDGE_CONFIDENCE )
    => /\ Len(agent[1].runLog) = 1
       /\ ~resp[1].usedWebSearch
       /\ resp[1].knowledgeReferences # <<>>
       /\ resp[1].turn = 1
       /\ resp[1].reply = Trim(RawAnswer)
       /\ resp[1].sessionId \in DOMAIN SESSIONS
       /\ SESSIONS[resp[1].sessionId].turns = 1

\* the wake phrase was detected on a new session and one run with a strong
\* match answered the turn
C13_Witness ==
    /\ resp[1].status = 200
    /\ resp[1].sessionId # req[1].providedSessionId
    /\ resp[1].detectedWakeWord
    /\ WithinBudget(1)
    /\ agent[1].runLog[1].topScore >= MIN_KNOWLEDGE_CONFIDENCE
    /\ Len(agent[1].runLog) = 1
    /\ ~resp[1].usedWebSearch
    /\ resp[1].knowledgeReferences = <<"changi-jewel-rain-vortex">>
    /\ resp[1].turn = 1

\* C14, as stated: if the fallback run completes and shouldFallbackToWebSearch
\* is still true for it, respond returns that run's answer after two runs,
\* with a webSearchNote saying the verification was incomplete
C14_UnverifiedAnnotation ==
    ( /\ agent[1].pc = "returned"
      /\ Len(agent[1].runLog) = 2
      /\ Questionable(2) )
    => /\ agent[1].result.answer \in {Trim(RawAnswer), MsgNoAnswer}
       /\ agent[1].result.webSearchNote = NoteFallbackIncomplete

\* C14, amended: the same when the fallback run stayed within the budget;
\* over the budget the answer is the budget message and there is no note
C14_UnverifiedWithinBudget ==
    ( /\ Len(agent[1].runLog) = 2
      /\ Questionable(2) )
    => /\ agent[1].pc = "returned"
       /\ ~WithinBudget(2) => agent[1].result.knowledgeReferences = <<>>
       /\ agent[1].result.answer \in
             (IF WithinBudget(2) THEN {Trim(RawAnswer), MsgNoAnswer}
              ELSE {MsgBudget})
       /\ agent[1].result.webSearchNote =
             (IF WithinBudget(2) THEN NoteFallbackIncomplete ELSE Undefined)

\* a fallback run that made no lookup and no web search call is answered
\* with its own answer and the note
C14_Witness ==
    /\ agent[1].pc = "returned"
    /\ Len(agent[1].runLog) = 2
    /\ Questionable(2)
    /\ WithinBudget(2)
    /\ agent[1].runLog[2].lookups = 0
    /\ agent[1].result.answer = Trim(RawAnswer)
    /\ agent[1].result.webSearchNote = NoteFallbackIncomplete


-----------------------------------------------------------------------------
(* Properties of detectAndStripWakeWord *)

RECURSIVE Squeeze(_)
\* s in lower case without its whitespace
Squeeze(s) ==
    IF s = <<>> THEN <<>>
    ELSE IF Head(s) \in WS THEN Squeeze(Tail(s))
    ELSE <<ToLower(Head(s))>> \o Squeeze(Tail(s))

\* the phrase is read at position p of s, whatever the case and the
\* whitespace
PhraseAt(s, p, phrase) ==
    \E e \in p - 1..Len(s) : Squeeze(SubSeq(s, p, e)) = Squeeze(phrase)

BeginsWithPhrase(s, phrase) == PhraseAt(s, 1, phrase)

PhraseOccurs(s, phrase) == \E p \in 1..Len(s) + 1 : PhraseAt(s, p, phrase)

WakeApplied == probe.fn = "detectAndStripWakeWord" /\ probe.applied >= 1

\* C15: a text whose trimmed form does not begin with the wake phrase is
\* reported unmatched and handed back trimmed, by both versions of
\* detectAndStripWakeWord, even when the phrase occurs later in the text.
C15_PrefixOnly ==
    (WakeApplied /\ ~BeginsWithPhrase(Trim(probe.text), probe.wakeWord))
        => /\ ~probe.result.matched /\ probe.result.stripped = Trim(probe.text)
           /\ ~probe.later.matched /\ probe.later.stripped = Trim(probe.text)

\* "I love hey guide trivia" with the phrase "hey guide" has been examined
C15_Witness ==
    /\ WakeApplied
    /\ probe.text = TextAfterOtherWords
    /\ probe.wakeWord = HeyGuide
    /\ ~BeginsWithPhrase(Trim(probe.text), probe.wakeWord)
    /\ PhraseOccurs(Trim(probe.text), probe.wakeWord)

\* C16: with an empty or whitespace-only wake phrase every text, the empty
\* one included, is reported unmatched and handed back trimmed, by both
\* versions of detectAndStripWakeWord.
C16_EmptyPhraseNeverMatches ==
    (WakeApplied /\ Trim(probe.wakeWord) = <<>>)
        => /\ ~probe.result.matched /\ probe.result.stripped = Trim(probe.text)
           /\ ~probe.later.matched /\ probe.later.stripped = Trim(probe.text)

\* the empty text has been examined with a whitespace-only phrase
C16_Witness ==
    /\ WakeApplied
    /\ probe.wakeWord = <<" ">>
    /\ probe.text = <<>>

\* C17: when the wake phrase does not occur in the text (whatever the case
\* and the whitespace), both versions report it unmatched, hand back the
\* trimmed text, and give the same result when applied to that result.
C17_AbsentPhraseIdempotent ==
    (/\ probe.fn = "detectAndStripWakeWord"
     /\ probe.applied = 2
     /\ ~PhraseOccurs(probe.text, probe.wakeWord))
        => /\ ~probe.result.matched
           /\ probe.result.stripped = Trim(probe.text)
           /\ probe.again = probe.result
           /\ ~probe.later.matched
           /\ probe.later.stripped = Trim(probe.text)
           /\ probe.laterAgain = probe.later

\* a text with surrounding whitespace that holds the words of the phrase in
\* the other order has been examined twice
C17_Witness ==
    /\ probe.fn = "detectAndStripWakeWord"
    /\ probe.applied = 2
    /\ probe.text = <<" ", "b", " ", "a", " ">>
    /\ probe.wakeWord = <<"a", " ", "b">>
    /\ ~PhraseOccurs(probe.text, probe.wakeWord)
    /\ probe.again.stripped = <<"b", " ", "a">>

-----------------------------------------------------------------------------
(* Properties of the knowledge scorer *)

SearchApplied == probe.fn = "searchKnowledgeIndex" /\ probe.applied

\* at most limit matches, scores never rising, equal scores in index order
Ranked(ms, limit) ==
    /\ Len(ms) <= limit
    /\ \A i, j \in 1..Len(ms) :
          i < j => /\ ms[i].score >= ms[j].score
                   /\ ms[i].score = ms[j].score => ms[i].id < ms[j].id

\* C18: searchKnowledgeIndex, with either scorer, returns at most limit
\* matches, in non-increasing order of score, and matches of an equal score
\* in the order of the index.
C18_RankedAndCapped ==
    SearchApplied => /\ Ranked(probe.matches, probe.limit)
                     /\ Ranked(probe.weighted, probe.limit)

\* three entries scored, the first two of them equal and behind the third,
\* and the result was cut to two
C18_Witness ==
    /\ SearchApplied
    /\ probe.limit = 2
    /\ Len(probe.index) = 3
    /\ Len(probe.weighted) = 2
    /\ probe.weighted[1].id = 3
    /\ probe.weighted[2].id = 1
    /\ \A k \in 1..3 :
          scoreEntryWeighted(probe.index[k], tokenizeWeighted(probe.query)).matched
    /\ scoreEntryWeighted(probe.index[1], tokenizeWeighted(probe.query)).score
           = scoreEntryWeighted(probe.index[2], tokenizeWeighted(probe.query)).score

ScoreApplied == probe.fn = "scoreEntry" /\ probe.applied

TokenInName == Includes(ToLowerText(probe.entry.name), probe.token)

\* C19: a token list extended by one more token that occurs in the entry's
\* name never scores lower than the list without it, an entry that does not
\* match counting as 0.
C19_NameTokenMonotone ==
    (ScoreApplied /\ TokenInName) => probe.after.score >= probe.before.score

\* a list that already scored on another field was extended by a name token
C19_Witness ==
    /\ ScoreApplied
    /\ TokenInName
    /\ Len(probe.queryTokens) = MaxTokens
    /\ probe.before.matched
    /\ \A k \in 1..Len(probe.queryTokens) :
          ~Includes(ToLowerText(probe.entry.name), probe.queryTokens[k])
    /\ probe.after.score > probe.before.score

\* the weight of the best field the token hits: 3 for the name, 2 for the
\* summary or a tag, 1 for the details alone
BestFieldWeight ==
    IF TokenInName THEN 3
    ELSE IF \/ Includes(ToLowerText(probe.entry.summary), probe.token)
            \/ TagsInclude(probe.entry, probe.token) THEN 2
    ELSE IF Includes(ToLowerText(probe.entry.details), probe.token) THEN 1
    ELSE 0

\* what the added token contributed, the name bonus left out
Contribution ==
    probe.after.score - probe.before.score
        - (IF TokenInName THEN ScoreUnit \div 2 ELSE 0)

\* C20: a query token contributes the weight of the best field it hits, so a
\* token found in a tag and not in the name contributes at least 2.
C20_BestFieldWeight ==
    ScoreApplied
        => /\ Contribution = BestFieldWeight * ScoreUnit
           /\ (TagsInclude(probe.entry, probe.token) /\ ~TokenInName)
                  => Contribution >= 2 * ScoreUnit

\* a token found in the details and in a tag, and in neither the name nor
\* the summary, has been scored
C20_Witness ==
    /\ ScoreApplied
    /\ ~TokenInName
    /\ ~Includes(ToLowerText(probe.entry.summary), probe.token)
    /\ Includes(ToLowerText(probe.entry.details), probe.token)
    /\ TagsInclude(probe.entry, probe.token)

-----------------------------------------------------------------------------
(* Properties of the session store *)

\* C21: for every stored session, isExpired is true exactly when
\* now - lastSeenAt > IDLE_MS: true at IDLE_MS + 1, false at IDLE_MS and at
\* 0, and equal to now > expiresAt(session).
C21_ExpiryBoundary ==
    \A id \in DOMAIN SESSIONS :
        LET session == SESSIONS[id]
            idle == now - session.lastSeenAt
        IN  /\ isExpired(session) <=> idle > IDLE_MS
            /\ isExpired(session) <=> now > expiresAt(session)
            /\ idle = IDLE_MS + 1 => isExpired(session)
            /\ idle = IDLE_MS => ~isExpired(session)
            /\ idle = 0 => ~isExpired(session)
            /\ expiresAt(session) = session.lastSeenAt + IDLE_MS

\* a session last seen exactly IDLE_MS ago is in the store
C21_Witness ==
    \E id \in DOMAIN SESSIONS :
        /\ now - SESSIONS[id].lastSeenAt = IDLE_MS
        /\ ~isExpired(SESSIONS[id])

\* C22: getSession called with an id of the store returns the stored session
\* and leaves the store as it was; called with no id or an id that is not in
\* the store it adds one new session (turns 0, no messages, lastSeenAt = now)
\* and returns it, every other stored session staying as it was.
C22_ResolveOrCreate ==
    [][(probe.fn = "getSession" /\ probe'.calls = probe.calls + 1)
          => LET sessionId == probe'.sessionId
                 returned == probe'.returned
             IN  IF sessionId \in DOMAIN SESSIONS
                 THEN /\ returned = SESSIONS[sessionId]
                      /\ SESSIONS' = SESSIONS
                 ELSE /\ returned.id \notin DOMAIN SESSIONS
                      /\ DOMAIN SESSIONS' = DOMAIN SESSIONS \cup {returned.id}
                      /\ SESSIONS'[returned.id] = returned
                      /\ returned.turns = 0
                      /\ returned.messages = <<>>
                      /\ returned.lastSeenAt = now
                      /\ \A k \in DOMAIN SESSIONS : SESSIONS'[k] = SESSIONS[k]]_vars

\* getSession was called with an id that had been deleted from the store,
\* while the store held another session with a recorded turn
C22_Witness ==
    /\ probe.fn = "getSession"
    /\ probe.sessionId # NoSessionId
    /\ probe.sessionId \notin DOMAIN SESSIONS
    /\ probe.returned.id \in DOMAIN SESSIONS
    /\ SESSIONS[probe.returned.id] = probe.returned
    /\ probe.returned.lastSeenAt = now
    /\ \E k \in DOMAIN SESSIONS : SESSIONS[k].turns > 0

\* C23: a request whose text and strippedText are both empty after trimming
\* is answered with status 400, without a session being created or looked
\* up, without a call of the agent, and with the store as it was.
C23_EmptyInputRejected ==
    [][(/\ req[1].pc = "idle"
        /\ sent' = sent + 1
        /\ req'[1].trimmedText = <<>>
        /\ req'[1].strippedFromClient = <<>>)
          => /\ resp'[1].status = 400
             /\ resp'[1].error = MsgMissingText
             /\ resp'[1].sessionId = NoSessionId
             /\ req'[1].pc = "idle"
             /\ req'[1].session = NoSessionId
             /\ UNCHANGED <<SESSIONS, detached, nextId, agent>>]_vars

\* an empty request that named a stored session has been answered with 400
C23_Witness ==
    /\ resp[1].status = 400
    /\ req[1].trimmedText = <<>>
    /\ req[1].strippedFromClient = <<>>
    /\ req[1].providedSessionId \in DOMAIN SESSIONS

\* C24: no stored session has more than MAX_TURNS turns, and no response
\* reports a normal turn beyond the MAX_TURNS-th.
C24_TurnCeiling ==
    /\ \A id \in DOMAIN SESSIONS : SESSIONS[id].turns <= MAX_TURNS
    /\ (resp[1].status = 200 /\ ~resp[1].ended) => resp[1].turn <= MAX_TURNS

\* a request has been taken up on a session that already has MAX_TURNS turns
C24_Witness ==
    /\ req[1].pc = "awaiting"
    /\ req[1].session \in DOMAIN SESSIONS
    /\ SESSIONS[req[1].session].turns = MAX_TURNS

FailureReplies ==
    {MsgInputGuardrail, MsgOutputGuardrail, MsgTurnLimit, MsgBudget,
     MsgUnexpected}

\* the caller's previous request was answered with a failure message
AfterFailure ==
    /\ req[1].previous.sessionId # NoSessionId
    /\ req[1].previous.reply \in FailureReplies

\* a non-empty request on the session of the failed turn finds the session
\* in the store and, within the idle window, is taken up under its id
C25_TakenUp ==
    [][(/\ req[1].pc = "idle"
        /\ sent' = sent + 1
        /\ AfterFailure
        /\ req'[1].providedSessionId = req[1].previous.sessionId
        /\ ~(req'[1].trimmedText = <<>> /\ req'[1].strippedFromClient = <<>>))
          => LET id == req[1].previous.sessionId
             IN  /\ id \in DOMAIN SESSIONS
                 /\ now - SESSIONS[id].lastSeenAt <= IDLE_MS
                       => /\ req'[1].pc = "awaiting"
                          /\ req'[1].session = id
                          /\ id \in DOMAIN SESSIONS']_vars

\* the response to a request taken up after a failed turn is a normal turn
\* of the same session
C25_Served ==
    (/\ AfterFailure
     /\ req[1].providedSessionId = req[1].previous.sessionId
     /\ resp[1].status \notin {0, 400}
     /\ ~resp[1].ended)
        => /\ resp[1].status = 200
           /\ resp[1].sessionId = req[1].previous.sessionId
           /\ resp[1].sessionId \in DOMAIN SESSIONS
           /\ resp[1].turn = SESSIONS[resp[1].sessionId].turns
           /\ resp[1].turn >= 2

\* C25: after a turn answered with a guardrail, turn-limit, budget or
\* unexpected-error message the session is still in the store, and the next
\* request with its id within the idle window is served as a normal turn
\* (ended = false) of the same session.
C25_FailureKeepsSession == C25_TakenUp /\ []C25_Served

\* a turn answered after the previous turn of the same session had failed
C25_Witness ==
    /\ AfterFailure
    /\ req[1].providedSessionId = req[1].previous.sessionId
    /\ resp[1].status = 200
    /\ ~resp[1].ended
    /\ resp[1].sessionId = req[1].previous.sessionId
    /\ resp[1].turn = 2
    /\ clock = IDLE_MS

-----------------------------------------------------------------------------
(* Properties of the conversation history archive *)

\* the last n elements of list
LastOf(list, n) ==
    IF Len(list) <= n THEN list ELSE SubSeq(list, Len(list) - n + 1, Len(list))

IsSuffix(part, list) ==
    /\ Len(part) <= Len(list)
    /\ part = SubSeq(list, Len(list) - Len(part) + 1, Len(list))

\* C26, as stated: after any sequence of appends each session's archived
\* list has at most maxEntries records, and they are the records most
\* recently appended to that session, in append order.
C26_RetentionBound ==
    probe.fn = "history"
        => \A k \in ArchiveSessions :
              /\ Len(probe.file[k]) <= probe.maxEntries
              /\ probe.file[k] = LastOf(probe.appended[k], probe.maxEntries)

\* C26 where every read succeeds: each session's archived list always has at
\* most maxEntries records and is a suffix of what the session was appended;
\* as long as no read of the history file has failed it is the last
\* maxEntries of them.
C26_RetentionWhileReadable ==
    probe.fn = "history"
        => \A k \in ArchiveSessions :
              /\ Len(probe.file[k]) <= probe.maxEntries
              /\ IsSuffix(probe.file[k], probe.appended[k])
              /\ ~probe.readFailed
                    => probe.file[k] = LastOf(probe.appended[k], probe.maxEntries)

\* a session has been appended more records than maxEntries, every read
\* having succeeded, and another session has records too
C26_Witness ==
    /\ probe.fn = "history"
    /\ ~probe.readFailed
    /\ Len(probe.appended[1]) > probe.maxEntries
    /\ Len(probe.file[1]) = probe.maxEntries
    /\ probe.file[2] # <<>>

\* C30: the history respond() puts into the context of a turn is the last
\* HISTORY_LIMIT archived exchanges of the turn's session, oldest first: not
\* empty when the session has archived exchanges, and without a record of
\* another session.
C30_OwnRecentHistory ==
    (probe.fn = "history" /\ probe.loads > 0 /\ probe.loadRead)
        => /\ probe.loaded = LastOf(probe.file[probe.loadedFor], HISTORY_LIMIT)
           /\ probe.file[probe.loadedFor] # <<>> => probe.loaded # <<>>
           /\ \A i \in 1..Len(probe.loaded) :
                 probe.loaded[i].sessionId = probe.loadedFor

\* the history was loaded, the file being readable, for a session that has
\* archived exchanges
C30_Witness ==
    /\ probe.fn = "history"
    /\ probe.loads > 0
    /\ probe.loadRead
    /\ Len(probe.file[probe.loadedFor]) = MaxEntries

-----------------------------------------------------------------------------
(* Properties of the two runs of a turn *)

BothRunsCompleted ==
    /\ agent[1].pc = "returned"
    /\ Len(agent[1].runLog) = 2
    /\ agent[1].runLog[1].outcome = "completed"
    /\ agent[1].runLog[2].outcome = "completed"

\* the usage of the primary and the fallback run together is over a ceiling
AggregateOverBudget ==
    \/ agent[1].runLog[1].usage.totalTokens + agent[1].runLog[2].usage.totalTokens
           > MAX_TOKEN_BUDGET
    \/ agent[1].runLog[1].usage.requests + agent[1].runLog[2].usage.requests
           > MAX_REQUEST_COUNT

\* C27: a turn that executed a primary and a fallback run whose token or
\* request totals over both runs exceed a ceiling returns the budget message,
\* even if the fallback run alone is within the ceilings.
C27_AggregateBudget ==
    (BothRunsCompleted /\ AggregateOverBudget)
        => agent[1].result.answer = MsgBudget

\* both runs completed, the fallback run within the ceilings and the two
\* together over them
C27_Witness ==
    /\ BothRunsCompleted
    /\ AggregateOverBudget
    /\ WithinBudget(2)

\* C28: the fallback run is awaited only after the primary run of the call
\* completed and its summary was found questionable; while the primary run
\* is awaited no run has been logged; a call never logs more than two runs,
\* and a call whose primary run failed returns without a second run.
C28_RunOrdering ==
    /\ agent[1].pc = "primary" => agent[1].runLog = <<>>
    /\ agent[1].pc = "fallback"
          => /\ Len(agent[1].runLog) = 1
             /\ agent[1].runLog[1].outcome = "completed"
             /\ Questionable(1)
             /\ agent[1].fallbackAttempted
    /\ Len(agent[1].runLog) <= 2
    /\ Len(agent[1].runLog) = 2
          => /\ agent[1].pc = "returned"
             /\ agent[1].runLog[1].outcome = "completed"
             /\ Questionable(1)
    /\ (Len(agent[1].runLog) >= 1 /\ agent[1].runLog[1].outcome # "completed")
          => /\ agent[1].pc = "returned"
             /\ Len(agent[1].runLog) = 1
             /\ ~agent[1].fallbackAttempted

\* the fallback run is being awaited after a completed primary run
C28_Witness ==
    /\ agent[1].pc = "fallback"
    /\ Len(agent[1].runLog) = 1
    /\ agent[1].runLog[1].outcome = "completed"

-----------------------------------------------------------------------------
(* knowledgeLookupTool.execute on its own: the lookup tool of agent-tools.ts
   and the later one that asks the index for twice the limit *)

MaxMinimumScore == 3
DEFAULT_LIMIT == 3
DEFAULT_MINIMUM_SCORE == 1

\* an optional input: <<>> for one that is absent or null, <<v>> for one given
Given(values) == {<<>>} \cup {<<v>> : v \in values}

\* opt ?? fallback
OrElse(opt, fallback) == IF opt = <<>> THEN fallback ELSE opt[1]

\* .filter(match => match.score > minimumScore)
RECURSIVE FilterAboveScore(_, _)
FilterAboveScore(ms, minimumScore) ==
    IF ms = <<>> THEN <<>>
    ELSE IF Head(ms).score > minimumScore * ScoreUnit
         THEN <<Head(ms)>> \o FilterAboveScore(Tail(ms), minimumScore)
         ELSE FilterAboveScore(Tail(ms), minimumScore)

\* .filter(match => match.score >= minimumScore)
RECURSIVE FilterByScore(_, _)
FilterByScore(ms, minimumScore) ==
    IF ms = <<>> THEN <<>>
    ELSE IF Head(ms).score >= minimumScore * ScoreUnit
         THEN <<Head(ms)>> \o FilterByScore(Tail(ms), minimumScore)
         ELSE FilterByScore(Tail(ms), minimumScore)

\* the entry the tool pushes on context.runTrace.knowledgeLookups
LookupTrace(query, limit, minimumScore, matches) ==
    [query |-> query, limit |-> limit, minimumScore |-> minimumScore,
     matches |-> matches]

\* agent-tools.ts: the index is asked for limit matches, which are filtered
knowledgeLookup(index, input, contextMinimum) ==
    LET limit == OrElse(input.limit, DEFAULT_LIMIT)
        minimumScore == OrElse(input.minimumScore, contextMinimum)
        matches == FilterByScore(searchKnowledgeIndex(index, input.query, limit),
                                 minimumScore)
    IN  LookupTrace(input.query, limit, minimumScore, matches)

\* the later tool: the index is asked for limit * 2 matches, which are
\* filtered and cut to limit
knowledgeLookupWeighted(index, input, contextMinimum) ==
    LET limit == OrElse(input.limit, DEFAULT_LIMIT)
        minimumScore == OrElse(input.minimumScore, contextMinimum)
        allMatches == searchKnowledgeIndexWeighted(index, input.query, limit * 2)
        matches == SliceFirst(FilterByScore(allMatches, minimumScore), limit)
    IN  LookupTrace(input.query, limit, minimumScore, matches)

NoTrace == LookupTrace(<<>>, 0, 0, <<>>)

LookupProbes ==
    {[fn |-> "knowledgeLookup", applied |-> FALSE,
      index |-> WithIds(x),
      input |-> [query |-> q, limit |-> l, minimumScore |-> m],
      recorded |-> NoTrace, recordedWeighted |-> NoTrace] :
        x \in SeqsUpTo(SearchPool, MaxIndexLen), q \in SearchQueries,
        l \in Given(1..MaxLimit), m \in Given(0..MaxMinimumScore)}

InitLookup ==
    /\ SESSIONS = <<>>
    /\ detached = <<>>
    /\ nextId = 0
    /\ sent = 0
    /\ clock = 0
    /\ req = [r \in Slots |-> IdleReq]
    /\ agent = [r \in Slots |-> IdleAgent]
    /\ resp = [r \in Slots |-> NoResponse]
    /\ probe \in LookupProbes

Lookup ==
    /\ probe.fn = "knowledgeLookup"
    /\ ~probe.applied
    /\ probe' = [probe EXCEPT
                    !.applied = TRUE,
                    !.recorded = knowledgeLookup(probe.index, probe.input,
                                                 DEFAULT_MINIMUM_SCORE),
                    !.recordedWeighted = knowledgeLookupWeighted(
                                             probe.index, probe.input,
                                             DEFAULT_MINIMUM_SCORE)]
    /\ UNCHANGED <<SESSIONS, detached, nextId, sent, clock, req, agent, resp>>

SpecLookup == InitLookup /\ [][Lookup]_vars

-----------------------------------------------------------------------------
(* Properties of the knowledge lookup tool *)

LookupApplied == probe.fn = "knowledgeLookup" /\ probe.applied

\* every entry of the index scored by the scorer of agent-tools.ts / by the
\* weighted scorer, the entries that scored nothing dropped, in stable
\* descending order of score
AllRanked(index, query) ==
    IF Trim(query) = <<>> \/ tokenize(query) = <<>> THEN <<>>
    ELSE SortByScore(FilterMatched(
             [k \in 1..Len(index) |-> scoreEntry(index[k], tokenize(query))]))

AllRankedWeighted(index, query) ==
    IF Trim(query) = <<>> \/ tokenizeWeighted(query) = <<>> THEN <<>>
    ELSE SortByScore(FilterMatched(
             [k \in 1..Len(index) |->
                 scoreEntryWeighted(index[k], tokenizeWeighted(query))]))

\* the matches of ranked that reach minimumScore, in their order, and of
\* these the first limit
ThresholdThenTruncate(ranked, minimumScore, limit) ==
    LET keep == {k \in 1..Len(ranked) :
                    ranked[k].score >= minimumScore * ScoreUnit}
        nth(n) == CHOOSE k \in keep : Cardinality({j \in keep : j <= k}) = n
        size == IF Cardinality(keep) < limit THEN Cardinality(keep) ELSE limit
    IN  [n \in 1..size |-> ranked[nth(n)]]

\* C29: for every query, limit and minimumScore the matches the lookup tool
\* records are those of the whole ranking that reach minimumScore, cut to
\* limit: asking the index for limit matches (agent-tools.ts) or for twice
\* the limit (the later tool) before filtering changes nothing.
C29_ThresholdThenTruncate ==
    LookupApplied =>
        /\ probe.recorded.matches =
              ThresholdThenTruncate(
                  AllRanked(probe.index, probe.input.query),
                  probe.recorded.minimumScore, probe.recorded.limit)
        /\ probe.recordedWeighted.matches =
              ThresholdThenTruncate(
                  AllRankedWeighted(probe.index, probe.input.query),
                  probe.recordedWeighted.minimumScore,
                  probe.recordedWeighted.limit)

\* three entries scored, the limit of one cut the ranking, and the minimum
\* score removed a match from what the index returned
C29_Witness ==
    /\ LookupApplied
    /\ probe.input.limit = <<1>>
    /\ probe.input.minimumScore # <<>>
    /\ Len(AllRankedWeighted(probe.index, probe.input.query)) = 3
    /\ Len(probe.recordedWeighted.matches) = 1
    /\ Len(FilterByScore(
              searchKnowledgeIndexWeighted(probe.index, probe.input.query, 2),
              probe.input.minimumScore[1])) = 1

-----------------------------------------------------------------------------
(* The endpoint with two requests in flight: each handler runs from one
   await to the next without interruption, and the two handlers take turns
   at the awaits *)

RaceRequests == 2

\* questions with and without the wake phrase, on any session id handed out
\* so far or none
RaceBody ==
    [text |-> {<<"q">>, WakeText}, strippedText |-> {Undefined},
     wakeWordDetected |-> {"absent"},
     sessionId |-> {NoSessionId} \cup 1..nextId]

RaceRuns ==
    {Completed(AtLimit, StrongTrace, <<>>),
     Completed(AtLimit, <<>>, <<>>),
     [kind |-> "failed", error |-> "InputGuardrailTripwireTriggered"]}

NextRace ==
    \/ \E r \in Slots : PostBegin(r, RaceRequests, RaceBody)
    \/ \E r \in Slots : LoadHistory(r)
    \/ \E r \in Slots : LoadNotes(r)
    \/ \E r \in Slots : PrimaryRun(r, RaceRuns)
    \/ \E r \in Slots : FallbackRun(r, RaceRuns)
    \/ \E r \in Slots : PostFinish(r)
    \/ \E r \in Slots : Receive(r)
    \/ Tick

SpecRace == Init /\ [][NextRace]_vars

-----------------------------------------------------------------------------
(* Properties of two requests in flight *)

\* the response of slot r has arrived at its caller's door and reports a turn
ServedAsTurn(r) == resp[r].status = 200 /\ ~resp[r].ended

\* both handlers answered with a turn of the same session, and neither
\* response has been taken yet
BothServed ==
    /\ ServedAsTurn(1)
    /\ ServedAsTurn(2)
    /\ resp[1].sessionId = resp[2].sessionId

\* the messages hold the user / assistant pair of turn n
HasPair(messages, n) ==
    \E i \in 1..Len(messages) - 1 :
        /\ messages[i] = Msg("user", n)
        /\ messages[i + 1] = Msg("assistant", n)

\* of the two turns answered, one left no trace in the session: the two
\* responses report the same turn number, or the session's count is not
\* that of the later one, or its messages lack the pair of one of them
\* (the runs are too short for the window of MAX_TURNS * 2 to drop a pair)
UpdateLost ==
    LET id == resp[1].sessionId
        later == IF resp[1].turn >= resp[2].turn THEN resp[1].turn
                 ELSE resp[2].turn
    IN  \/ id \notin DOMAIN SESSIONS
        \/ resp[1].turn = resp[2].turn
        \/ SESSIONS[id].turns # later
        \/ ~HasPair(SESSIONS[id].messages, resp[1].turn)
        \/ ~HasPair(SESSIONS[id].messages, resp[2].turn)

C33_AnsweredSessionIsLive ==
    [][\A r \in Slots :
          (/\ resp[r] = NoResponse
           /\ resp'[r].status = 200
           /\ ~resp'[r].ended)
              => /\ resp'[r].sessionId \in DOMAIN SESSIONS'
                 /\ SESSIONS'[resp'[r].sessionId].turns = resp'[r].turn]_vars

\* slot 1 was answered with a turn of a session that slot 2, arriving after
\* the idle window while slot 1 was suspended, had found expired and deleted
C33_Witness ==
    /\ ServedAsTurn(1)
    /\ resp[2].status = 200
    /\ resp[2].ended
    /\ resp[2].sessionId = resp[1].sessionId
    /\ resp[1].sessionId \notin DOMAIN SESSIONS

-----------------------------------------------------------------------------
(* The history file and its writers: append() of the history store and
   saveImageAnalysis() of the image endpoint each read the file, add a
   record to what they read and write the result back, with an await at the
   read and at the write *)

MaxWrites == 3
DEFAULT_MAX_ENTRIES == 50

Writers == {1, 2}

WriterKinds == {"append", "saveImageAnalysis"}

\* saveImageAnalysis on the history that was read: a push, without a splice
saveImageAnalysis(conversationHistory, analysisData) ==
    [conversationHistory EXCEPT
        ![analysisData.sessionId] = Append(@, analysisData)]

\* a writer between calls
IdleWriter ==
    [pc |-> "idle", kind |-> "append", record |-> Record(NoSessionId, 0),
     local |-> EmptyHistory, overlapped |-> FALSE]

\* file is the content of the history file; writer holds the locals of the
\* call each writer is in; completed is the set of the records whose call
\* has returned, each with whether the call overlapped another
InitWriters ==
    /\ SESSIONS = <<>>
    /\ detached = <<>>
    /\ nextId = 0
    /\ sent = 0
    /\ clock = 0
    /\ req = [r \in Slots |-> IdleReq]
    /\ agent = [r \in Slots |-> IdleAgent]
    /\ resp = [r \in Slots |-> NoResponse]
    /\ probe = [fn |-> "writers", file |-> EmptyHistory, started |-> 0,
                writer |-> [w \in Writers |-> IdleWriter], completed |-> {}]

\* the call up to its write: the file is read and the record added to the
\* object that was read
WriterRead(w) ==
    /\ probe.fn = "writers"
    /\ probe.writer[w].pc = "idle"
    /\ probe.started < MaxWrites
    /\ \E kind \in WriterKinds, sessionId \in ArchiveSessions :
          LET record == Record(sessionId, probe.started + 1)
              others == {v \in Writers \ {w} : probe.writer[v].pc = "writing"}
              local == IF kind = "append"
                       THEN appendToSession(probe.file, record,
                                            DEFAULT_MAX_ENTRIES)
                       ELSE saveImageAnalysis(probe.file, record)
          IN  probe' = [probe EXCEPT
                          !.started = @ + 1,
                          !.writer =
                              [v \in Writers |->
                                  IF v = w
                                  THEN [pc |-> "writing", kind |-> kind,
                                        record |-> record, local |-> local,
                                        overlapped |-> others # {}]
                                  ELSE IF v \in others
                                       THEN [@[v] EXCEPT !.overlapped = TRUE]
                                       ELSE @[v]]]
    /\ UNCHANGED <<SESSIONS, detached, nextId, sent, clock, req, agent, resp>>

\* fs.writeFile of the object the call holds, and the call returns
WriterWrite(w) ==
    /\ probe.fn = "writers"
    /\ probe.writer[w].pc = "writing"
    /\ probe' = [probe EXCEPT
                    !.file = probe.writer[w].local,
                    !.writer[w] = IdleWriter,
                    !.completed = @ \cup
                        {[record |-> probe.writer[w].record,
                          overlapped |-> probe.writer[w].overlapped]}]
    /\ UNCHANGED <<SESSIONS, detached, nextId, sent, clock, req, agent, resp>>

NextWriters ==
    \/ \E w \in Writers : WriterRead(w)
    \/ \E w \in Writers : WriterWrite(w)

SpecWriters == InitWriters /\ [][NextWriters]_vars

-----------------------------------------------------------------------------
(* Properties of the writers of the history file *)

\* the file holds record in the list of its session
Persisted(record) ==
    \E k \in 1..Len(probe.file[record.sessionId]) :
        probe.file[record.sessionId][k] = record

\* C32: whenever writers of the history file overlap and complete (two
\* appends, or an append and an image-analysis save, for the same or for
\* different sessions), the record of each call that has returned is in the
\* file: no interleaving of the reads and writes loses a record.
C32_NoRecordLost ==
    probe.fn = "writers" =>
        \A c \in probe.completed : Persisted(c.record)

\* two calls overlapped, both have returned, and the file holds the record
\* of one of them only
C32_Witness ==
    /\ probe.fn = "writers"
    /\ probe.started = 2
    /\ \A w \in Writers : probe.writer[w].pc = "idle"
    /\ Cardinality(probe.completed) = 2
    /\ \A c \in probe.completed : c.overlapped
    /\ \E c \in probe.completed : ~Persisted(c.record)
    /\ \E c \in probe.completed : Persisted(c.record)

-----------------------------------------------------------------------------
(* Properties of the failure and answer paths of respond() *)

\* the message handleAgentError gives for an error of class kind
FailureMessage(kind) ==
    IF kind = "InputGuardrailTripwireTriggered" THEN MsgInputGuardrail
    ELSE IF kind = "OutputGuardrailTripwireTriggered" THEN MsgOutputGuardrail
    ELSE IF kind = "MaxTurnsExceededError" THEN MsgTurnLimit
    ELSE MsgUnexpected

\* the primary run completed, was escalated, and the fallback run raised
FallbackFailed ==
    /\ Len(agent[1].runLog) = 2
    /\ agent[1].runLog[1].outcome = "completed"
    /\ agent[1].runLog[2].outcome # "completed"

\* C34: when the primary run completed and was escalated and the fallback
\* run raises an error, respond returns the failure message of that error's
\* class with no references and usedWebSearch = false, whatever the primary
\* run had found.
C34_FailedFallbackFailsTurn ==
    FallbackFailed =>
        /\ agent[1].pc = "returned"
        /\ agent[1].fallbackAttempted
        /\ agent[1].result.answer = FailureMessage(agent[1].runLog[2].outcome)
        /\ agent[1].result.knowledgeReferences = <<>>
        /\ ~agent[1].result.usedWebSearch

\* the primary run had a match (below the confidence threshold), the
\* fallback run ran out of turns, and the call returned the turn-limit message
C34_Witness ==
    /\ FallbackFailed
    /\ agent[1].runLog[1].matchIds # {}
    /\ agent[1].runLog[2].outcome = "MaxTurnsExceededError"
    /\ agent[1].result.answer = MsgTurnLimit

-----------------------------------------------------------------------------
(* Properties of the wake flag and of the session id of a request *)

\* C35: a response to the first turn of a session (turns was 0) reports
\* detectedWakeWord = true only if the text of the request begins with the
\* wake phrase, whatever the client sent as wakeWordDetected and
\* strippedText.
C35_TruthfulWakeFlag ==
    [][( /\ req[1].pc = "awaiting"
         /\ resp'[1].status = 200
         /\ ~resp'[1].ended
         /\ resp'[1].turn = 1
         /\ resp'[1].detectedWakeWord )
            => BeginsWithPhrase(req[1].trimmedText, DEFAULT_WAKE_WORD)]_vars

\* the first request of a session, with the text "q", the flag set and a
\* stripped text sent along, has its answer ready and the wake phrase marked
\* as detected
C35_Witness ==
    /\ req[1].pc = "awaiting"
    /\ agent[1].pc = "returned"
    /\ Deref(req[1].session).turns = 0
    /\ req[1].trimmedText = <<"q">>
    /\ req[1].strippedFromClient = <<"q">>
    /\ req[1].detectedWakeWord

\* a request arrives with a session id that the store does not hold, and is
\* not refused for want of a text
UnknownIdArrives ==
    /\ req[1].pc = "idle"
    /\ sent' = sent + 1
    /\ resp'[1].status # 400
    /\ req'[1].providedSessionId # NoSessionId
    /\ req'[1].providedSessionId \notin DOMAIN SESSIONS

\* C36: a request carrying a session id that the store does not hold is
\* served under a session id drawn for it, different from the one supplied
\* and from every id in the store, with turns = 0 and no messages, and the
\* first-turn wake-phrase handling is applied to it.
C36_UnknownIdNotAdopted ==
    [][UnknownIdArrives =>
          /\ req'[1].pc = "awaiting"
          /\ req'[1].session # req'[1].providedSessionId
          /\ req'[1].session \notin DOMAIN SESSIONS
          /\ req'[1].session \in DOMAIN SESSIONS'
          /\ req'[1].providedSessionId \notin DOMAIN SESSIONS'
          /\ SESSIONS'[req'[1].session].turns = 0
          /\ SESSIONS'[req'[1].session].messages = <<>>
          /\ \E flag \in WakeFlags :
                LET gate == WakeGate(0, req'[1].trimmedText,
                                     req'[1].strippedFromClient, flag)
                IN  /\ req'[1].detectedWakeWord = gate.detectedWakeWord
                    /\ req'[1].userText = gate.userText]_vars

\* a request gave the id of a session that an idle_timeout response had
\* removed: it is served in a new session, at turn 0, and the wake phrase of
\* its text is detected and stripped again
C36_Witness ==
    /\ req[1].pc = "awaiting"
    /\ clock > IDLE_MS
    /\ req[1].providedSessionId # NoSessionId
    /\ req[1].providedSessionId \notin DOMAIN SESSIONS
    /\ req[1].session # req[1].providedSessionId
    /\ SESSIONS[req[1].session].turns = 0
    /\ req[1].trimmedText = WakeText
    /\ req[1].detectedWakeWord
    /\ req[1].userText = <<"q">>

\* C37: every AgentResponse respond returns (a worded answer, the budget
\* message, a failure message) has an answer that is not empty after
\* trimming, and every escalation has a reason in the trace of the primary
\* run: that run used no web search and had no lookup, no match or a best
\* score below the threshold, so the empty-answer test is never what
\* escalates.
C37_AnswerNeverEmpty ==
    /\ agent[1].pc = "returned" => Trim(agent[1].result.answer) # <<>>
    /\ agent[1].fallbackAttempted => Questionable(1)

\* a primary run that called the web search ended without a final output:
\* the call returned the stock answer and was not escalated
C37_Witness ==
    /\ agent[1].pc = "returned"
    /\ Len(agent[1].runLog) = 1
    /\ agent[1].runLog[1].outcome = "completed"
    /\ agent[1].runLog[1].usedWebSearch
    /\ agent[1].result.answer = MsgNoAnswer
    /\ ~agent[1].fallbackAttempted

-----------------------------------------------------------------------------
(* app/api/demo/narration/route.ts: the queue of narration requests.  POST
   awaits the body and then, without another await, builds the entry and
   pushes it; GET shifts *)

MaxPosts == 3
MaxGets == 3

DEFAULT_POI_ID == <<"changi-jewel-main">>

\* body.poiId: absent (or a body that does not parse), blank, a name in spaces
PoiIds == {Undefined, <<" ">>, <<" ", "p", " ">>}

PostHandlers == {1, 2}

normalisePoiId(poiId) ==
    IF poiId # Undefined /\ Trim(poiId) # <<>> THEN Trim(poiId)
    ELSE DEFAULT_POI_ID

\* a DemoNarrationRequest; id and requestedAt are abstracted to the ordinal
\* of the push, voiceId is left out
NoNarration == [id |-> 0, poiId |-> Undefined]

\* pendingNarrations.shift() read from the newest end
shiftNewest(pendingNarrations) ==
    IF pendingNarrations = <<>> THEN [next |-> NoNarration, rest |-> <<>>]
    ELSE [next |-> pendingNarrations[Len(pendingNarrations)],
          rest |-> SubSeq(pendingNarrations, 1, Len(pendingNarrations) - 1)]

\* pendingNarrations.shift() ?? null, and the array after it
shift(pendingNarrations) ==
    IF pendingNarrations = <<>> THEN [next |-> NoNarration, rest |-> <<>>]
    ELSE [next |-> Head(pendingNarrations), rest |-> Tail(pendingNarrations)]

\* pendingNarrations is the module's array; parsing holds, for each POST
\* handler awaiting request.json(), the poiId of its body; pushed lists every
\* entry in the order of the pushes, answers the `next` of every GET in the
\* order of the GETs, and emptyAtGet whether the array was empty at each
InitNarration ==
    /\ SESSIONS = <<>>
    /\ detached = <<>>
    /\ nextId = 0
    /\ sent = 0
    /\ clock = 0
    /\ req = [r \in Slots |-> IdleReq]
    /\ agent = [r \in Slots |-> IdleAgent]
    /\ resp = [r \in Slots |-> NoResponse]
    /\ probe = [fn |-> "narration", pendingNarrations |-> <<>>,
                parsing |-> <<>>, posts |-> 0, pushed |-> <<>>,
                answers |-> <<>>, emptyAtGet |-> <<>>]

\* a POST arrives and awaits its body
NarrationPost(h) ==
    /\ probe.fn = "narration"
    /\ h \notin DOMAIN probe.parsing
    /\ probe.posts < MaxPosts
    /\ \E poiId \in PoiIds :
          probe' = [probe EXCEPT !.posts = @ + 1,
                                 !.parsing = (h :> poiId) @@ @]
    /\ UNCHANGED <<SESSIONS, detached, nextId, sent, clock, req, agent, resp>>

\* lines 33-45: the body has settled; the entry is built and pushed
NarrationPush(h) ==
    /\ probe.fn = "narration"
    /\ h \in DOMAIN probe.parsing
    /\ LET requestEntry == [id |-> Len(probe.pushed) + 1,
                            poiId |-> normalisePoiId(probe.parsing[h])]
       IN  probe' = [probe EXCEPT
                        !.parsing = Without(@, h),
                        !.pendingNarrations = Append(@, requestEntry),
                        !.pushed = Append(@, requestEntry)]
    /\ UNCHANGED <<SESSIONS, detached, nextId, sent, clock, req, agent, resp>>

\* lines 57-60: GET
NarrationGet ==
    /\ probe.fn = "narration"
    /\ Len(probe.answers) < MaxGets
    /\ LET taken == shift(probe.pendingNarrations)
       IN  probe' = [probe EXCEPT
                        !.pendingNarrations = taken.rest,
                        !.answers = Append(@, taken.next),
                        !.emptyAtGet =
                            Append(@, probe.pendingNarrations = <<>>)]
    /\ UNCHANGED <<SESSIONS, detached, nextId, sent, clock, req, agent, resp>>

NextNarration ==
    \/ \E h \in PostHandlers : NarrationPost(h)
    \/ \E h \in PostHandlers : NarrationPush(h)
    \/ NarrationGet

SpecNarration == InitNarration /\ [][NextNarration]_vars

-----------------------------------------------------------------------------
(* Properties of the narration queue *)

\* the answers of the GETs that were not null, in the order of the GETs
RECURSIVE Served(_)
Served(answers) ==
    IF answers = <<>> THEN <<>>
    ELSE IF Head(answers) = NoNarration THEN Served(Tail(answers))
    ELSE <<Head(answers)>> \o Served(Tail(answers))

\* C38: in every interleaving of POSTs and GETs, the requests the GETs
\* returned are, in the order of the GETs, the first of the requests queued,
\* each once; the array holds the rest in the order they were queued; and a
\* GET answered null exactly when the array was empty.
C38_FifoExactlyOnce ==
    probe.fn = "narration" =>
        LET served == Served(probe.answers)
        IN  /\ Len(served) <= Len(probe.pushed)
            /\ served = SubSeq(probe.pushed, 1, Len(served))
            /\ probe.pendingNarrations =
                  SubSeq(probe.pushed, Len(served) + 1, Len(probe.pushed))
            /\ \A k \in 1..Len(probe.answers) :
                  (probe.answers[k] = NoNarration) <=> probe.emptyAtGet[k]

\* a GET on the empty array answered null, three requests were queued, and
\* two GETs returned the first two of them in the order queued
C38_Witness ==
    /\ probe.fn = "narration"
    /\ Len(probe.answers) = 3
    /\ probe.answers[1] = NoNarration
    /\ probe.answers[2].id = 1
    /\ probe.answers[3].id = 2
    /\ Len(probe.pushed) = 3
    /\ Len(probe.pendingNarrations) = 1

-----------------------------------------------------------------------------
(* lib/wake-activation.ts: listenForSpeechOnce.  The executor of the promise
   runs in one piece; afterwards the recognition object, the timer and the
   abort signal deliver their events one at a time, each to the handler that
   is set for it at that moment *)

MaxResults == 2

RecognitionHandlers == {"onstart", "onresult", "onerror", "onend"}

\* what recognition.abort() does before it returns: the events of the
\* session it ends are queued, or the error or the end event is dispatched
\* at once
AbortDispatch == {"queued", "error", "end"}

\* the locals of the executor and the counters of what it called;
\* recognition is "new" before start(), "running" until its end event
NewListen(hasOnListeningEnd, signal, startThrows) ==
    [fn |-> "listenForSpeechOnce", pc |-> "new",
     hasOnListeningEnd |-> hasOnListeningEnd, signal |-> signal,
     startThrows |-> startThrows,
     recognition |-> "new", errored |-> FALSE, started |-> FALSE,
     handlers |-> {}, timerPending |-> FALSE, abortListener |-> FALSE,
     settled |-> FALSE, finalTranscript |-> <<>>, partialTranscript |-> <<>>,
     results |-> 0,
     resolveCalls |-> 0, rejectCalls |-> 0, transcript |-> Undefined,
     onListeningEndCalls |-> 0, onListeningStartCalls |-> 0,
     onPartialTranscriptCalls |-> 0]

teardown(l) == [l EXCEPT !.timerPending = FALSE, !.abortListener = FALSE]

\* a cleanup that leaves the handlers on the recognition object
cleanupKeeping(l) == l

cleanup(l) == [l EXCEPT !.handlers = {}]

finish(l, transcript) ==
    IF l.settled THEN l
    ELSE [cleanup(teardown([l EXCEPT !.settled = TRUE])) EXCEPT
             !.onListeningEndCalls = IF l.hasOnListeningEnd THEN @ + 1 ELSE @,
             !.resolveCalls = @ + 1,
             !.transcript = IF l.resolveCalls + l.rejectCalls = 0
                            THEN transcript ELSE @]

fail(l) ==
    IF l.settled THEN l
    ELSE [cleanup(teardown([l EXCEPT !.settled = TRUE])) EXCEPT
             !.rejectCalls = @ + 1]

\* recognition.onerror, if it is set
DispatchError(l) ==
    LET marked == [l EXCEPT !.errored = TRUE]
    IN  IF "onerror" \in l.handlers THEN fail(marked) ELSE marked

\* recognition.onend, if it is set
DispatchEnd(l) ==
    LET ended == [l EXCEPT !.recognition = "ended"]
        transcript == Trim(IF l.finalTranscript # <<>> THEN l.finalTranscript
                           ELSE l.partialTranscript)
    IN  IF "onend" \in l.handlers THEN finish(ended, transcript) ELSE ended

\* onAbort: recognition.abort(), then fail(new Error(...))
onAbort(l, dispatch) ==
    LET aborted ==
            IF l.recognition # "running" \/ dispatch = "queued" THEN l
            ELSE IF dispatch = "error" THEN DispatchError(l)
            ELSE DispatchEnd(l)
    IN  fail(aborted)

InitListen ==
    /\ SESSIONS = <<>>
    /\ detached = <<>>
    /\ nextId = 0
    /\ sent = 0
    /\ clock = 0
    /\ req = [r \in Slots |-> IdleReq]
    /\ agent = [r \in Slots |-> IdleAgent]
    /\ resp = [r \in Slots |-> NoResponse]
    /\ probe \in {NewListen(e, s, t) :
                     e \in BOOLEAN, s \in {"none", "idle", "aborted"},
                     t \in BOOLEAN}

\* lines 135-252: the executor
Listen ==
    /\ probe.fn = "listenForSpeechOnce"
    /\ probe.pc = "new"
    /\ LET l == [probe EXCEPT !.pc = "listening"]
       IN  IF l.signal = "aborted"
           THEN \E dispatch \in AbortDispatch : probe' = onAbort(l, dispatch)
           ELSE LET armed == [l EXCEPT
                                 !.abortListener = l.signal # "none",
                                 !.handlers = RecognitionHandlers,
                                 !.timerPending = TRUE]
                IN  probe' = IF l.startThrows THEN fail(armed)
                             ELSE [armed EXCEPT !.recognition = "running"]
    /\ UNCHANGED <<SESSIONS, detached, nextId, sent, clock, req, agent, resp>>

\* the start event
RecognitionStart ==
    /\ probe.fn = "listenForSpeechOnce"
    /\ probe.recognition = "running"
    /\ ~probe.started
    /\ probe' = [probe EXCEPT
                    !.started = TRUE,
                    !.onListeningStartCalls =
                        IF "onstart" \in probe.handlers THEN @ + 1 ELSE @]
    /\ UNCHANGED <<SESSIONS, detached, nextId, sent, clock, req, agent, resp>>

\* a result event with one result, final or interim
RecognitionResult ==
    /\ probe.fn = "listenForSpeechOnce"
    /\ probe.recognition = "running"
    /\ probe.results < MaxResults
    /\ \E isFinal \in BOOLEAN :
          probe' =
              IF "onresult" \notin probe.handlers
              THEN [probe EXCEPT !.results = @ + 1]
              ELSE [probe EXCEPT
                       !.results = @ + 1,
                       !.finalTranscript = IF isFinal THEN <<"f">> ELSE @,
                       !.partialTranscript = IF isFinal THEN <<>> ELSE <<"p">>,
                       !.onPartialTranscriptCalls =
                           IF isFinal THEN @ ELSE @ + 1]
    /\ UNCHANGED <<SESSIONS, detached, nextId, sent, clock, req, agent, resp>>

\* an error event; the end event of the session follows it
RecognitionError ==
    /\ probe.fn = "listenForSpeechOnce"
    /\ probe.recognition = "running"
    /\ ~probe.errored
    /\ probe' = DispatchError(probe)
    /\ UNCHANGED <<SESSIONS, detached, nextId, sent, clock, req, agent, resp>>

\* the end event
RecognitionEnd ==
    /\ probe.fn = "listenForSpeechOnce"
    /\ probe.recognition = "running"
    /\ probe' = DispatchEnd(probe)
    /\ UNCHANGED <<SESSIONS, detached, nextId, sent, clock, req, agent, resp>>

\* the timer fires: recognition.stop(), whose end event comes later
Timeout ==
    /\ probe.fn = "listenForSpeechOnce"
    /\ probe.timerPending
    /\ probe' = [probe EXCEPT !.timerPending = FALSE]
    /\ UNCHANGED <<SESSIONS, detached, nextId, sent, clock, req, agent, resp>>

\* the caller aborts the signal; the listener, if still there, runs once
SignalAbort ==
    /\ probe.fn = "listenForSpeechOnce"
    /\ probe.pc = "listening"
    /\ probe.signal = "idle"
    /\ \E dispatch \in AbortDispatch :
          LET l == [probe EXCEPT !.signal = "aborted",
                                 !.abortListener = FALSE]
          IN  probe' = IF probe.abortListener THEN onAbort(l, dispatch) ELSE l
    /\ UNCHANGED <<SESSIONS, detached, nextId, sent, clock, req, agent, resp>>

NextListen ==
    \/ Listen
    \/ RecognitionStart
    \/ RecognitionResult
    \/ RecognitionError
    \/ RecognitionEnd
    \/ Timeout
    \/ SignalAbort

SpecListen == InitListen /\ [][NextListen]_vars

-----------------------------------------------------------------------------
(* Properties of listenForSpeechOnce *)

ListenProbe == probe.fn = "listenForSpeechOnce"

\* what the promise and the callbacks have been given so far
ListenEffects ==
    <<probe.resolveCalls, probe.rejectCalls, probe.transcript,
      probe.onListeningEndCalls, probe.onListeningStartCalls,
      probe.onPartialTranscriptCalls>>

SettledOnce ==
    ListenProbe =>
        /\ probe.resolveCalls + probe.rejectCalls <= 1
        /\ probe.settled <=> probe.resolveCalls + probe.rejectCalls = 1
        /\ probe.onListeningEndCalls <= 1
        /\ probe.onListeningEndCalls = 1 => probe.resolveCalls = 1
        /\ probe.settled => /\ ~probe.timerPending
                            /\ ~probe.abortListener
                            /\ probe.handlers = {}

\* C39: in every order of the end, error, abort and timeout events the
\* promise is resolved or rejected at most once, onListeningEnd is called at
\* most once and only with a resolve; once settled, no timer is pending, the
\* abort listener is removed and no recognition handler is set, and no later
\* event changes what the promise and the callbacks were given.
C39_SettlesOnce ==
    /\ []SettledOnce
    /\ [][(ListenProbe /\ probe.settled)
            => ListenEffects' = ListenEffects]_vars

\* a recognition error rejected the promise, and the end event, the timer
\* and the abort of the signal that came after it found nothing to call
C39_Witness ==
    /\ ListenProbe
    /\ probe.rejectCalls = 1
    /\ probe.resolveCalls = 0
    /\ probe.errored
    /\ probe.recognition = "ended"
    /\ probe.signal = "aborted"
    /\ probe.hasOnListeningEnd
    /\ probe.onListeningEndCalls = 0

=============================================================================
